---- MODULE Spec2Model ----
(***************************************************************************)
(* Tuple codec of src/backend/access/common: heaptuple.c (row tuples) and  *)
(* indextuple.c (index tuples); input and output of src/backend/commands/  *)
(* copy.c; scan bookkeeping of src/backend/access/gist/gistscan.c.         *)
(*                                                                         *)
(* A tuple's attribute data region is a sequence of bytes; offsets are     *)
(* counted from the data start (tp = tup + t_hoff), which is maximally     *)
(* aligned.  A Datum is an integer for a by-value attribute and the byte   *)
(* sequence its pointer refers to for a by-reference attribute; a          *)
(* variable-length value starts with its own 4-byte length (VARSIZE).      *)
(* The cached offsets (attcacheoff) live in the tuple descriptor: one      *)
(* descriptor for the heap relation, one for the index relation.           *)
(***************************************************************************)
EXTENDS Integers, Sequences, FiniteSets, TLC

(* ------------------------------ bounds -------------------------------- *)

\* Largest number of attributes of a descriptor.
MaxAtts == 4

\* Largest number of attributes of a descriptor in the specifications that
\* follow sequences of nocachegetattr calls.
MaxWalkAtts == 4

\* Largest number of attributes of a descriptor in the specification that
\* forms tuples of every length and alignment class.
MaxAlignAtts == 2

\* Attributes of a tuple that is read several times.
MaxHeldAtts == 3

\* Attributes of a tuple that is rebuilt.
MaxModAtts == 2

\* How many steps of 8 bytes around a size limit the large values lie.
Spread == 1

\* How far below and above a ceiling the attribute counts tried lie.
Margin == 1

\* Attributes of a descriptor whose declared lengths are of any class.
MaxLenAtts == 2

\* Attributes of a tuple that is asked for system attributes.
MaxSysAtts == 2

\* How far outside the valid attribute numbers the numbers asked for lie.
Beyond == 2

\* Attributes of a descriptor that two interleaved calls share.
MaxRaceAtts == 3

\* Attributes of a descriptor both accessors are called on in turn.
MaxScanAtts == 3

\* CopyData messages the client sends, bytes in one of them, and bytes
\* asked for in one call of CopyGetData.
MaxMsgs == 2

MaxBody == 2

MaxGet == 3

(* ------------------------- platform constants ------------------------- *)

\* sizeof(long): LONGALIGN rounds to this boundary.
SizeofLong == 4

\* t_infomask bits written by DataFill.
HEAP_HASNULL == 1

HEAP_HASVARLENA == 2

\* ORed into t_infomask by heap_formtuple after DataFill.
HEAP_XMAX_INVALID == 2048

\* t_info bits of an index tuple.
INDEX_NULL_MASK == 32768

INDEX_VAR_MASK == 16384

\* Bits of t_info that must be clear in a size (0xE000).
INDEX_SIZE_OVERFLOW == 57344

\* sizeof(IndexTupleData): item pointer (6 bytes) plus t_info (2 bytes).
SizeofIndexTupleData == 8

\* attcacheoff of an attribute whose offset is not cached.
Unset == -1

(* --------------------------- bits and bytes --------------------------- *)

\* 2^n for n in 0..24.
Pow2Table ==
    <<1, 2, 4, 8, 16, 32, 64, 128, 256, 512, 1024, 2048, 4096, 8192, 16384,
      32768, 65536, 131072, 262144, 524288, 1048576, 2097152, 4194304,
      8388608, 16777216>>

Pow2(n) == Pow2Table[n + 1]

RECURSIVE BitAnd(_, _)
\* Bitwise AND of two non-negative integers.
BitAnd(a, b) ==
    IF a = 0 \/ b = 0 THEN 0
    ELSE (a % 2) * (b % 2) + 2 * BitAnd(a \div 2, b \div 2)

\* x | b for an integer x and a single bit b.
BitOr(x, b) == IF BitAnd(x, b) # 0 THEN x ELSE x + b

\* Round len up to a multiple of a.
AlignTo(len, a) == ((len + a - 1) \div a) * a

SHORTALIGN(len) == AlignTo(len, 2)

INTALIGN(len) == AlignTo(len, 4)

LONGALIGN(len) == AlignTo(len, SizeofLong)

DOUBLEALIGN(len) == AlignTo(len, 8)

\* The n bytes of the integer v, least significant first.
ToBytes(v, n) == [k \in 1..n |-> (v \div Pow2(8 * (k - 1))) % 256]

\* The unsigned integer stored in a sequence of at most three bytes.
FromBytes(b) ==
    (IF Len(b) >= 1 THEN b[1] ELSE 0)
    + (IF Len(b) >= 2 THEN 256 * b[2] ELSE 0)
    + (IF Len(b) >= 3 THEN 65536 * b[3] ELSE 0)

\* The signed integer stored in a field of 1, 2 or 4 bytes (two's
\* complement: the last byte carries the sign).
SignedOf(b) ==
    FromBytes(SubSeq(b, 1, Len(b) - 1))
    + Pow2(8 * (Len(b) - 1)) * (IF b[Len(b)] >= 128 THEN b[Len(b)] - 256 ELSE b[Len(b)])

\* The signed 32-bit integer stored in four bytes.
Int32Of(b) == SignedOf(b)

Zeros(n) == [k \in 1..n |-> 0]

\* The n bytes at offset off lie inside the buffer.
InBuf(buf, off, n) == off >= 0 /\ off + n <= Len(buf)

\* The byte at offset off of a buffer. What a read outside the buffer
\* yields is not defined: every reader reports such a read (its `wild'
\* flag), and the 0 given here then stands for an arbitrary byte.
ByteAt(buf, off) == IF InBuf(buf, off, 1) THEN buf[off + 1] ELSE 0

\* The n bytes at offset off.
BytesAt(buf, off, n) == [k \in 1..n |-> ByteAt(buf, off + k - 1)]

\* VARSIZE(tp + off): the int32 length word at offset off.
VARSIZE(buf, off) == Int32Of(BytesAt(buf, off, 4))

\* `attlen < sizeof(int32)': attlen is converted to an unsigned type, so a
\* negative length is not smaller than 4.
LenBelowInt32(attlen) == attlen >= 0 /\ attlen < 4

\* `attlen > sizeof(int32)' under the same conversion.
LenAboveInt32(attlen) == attlen > 4 \/ attlen < 0

(* ------------------------------ builders ------------------------------ *)

\* The offset at which attribute a starts when the running offset is off:
\* the alignment every routine applies for a's length class.
AttAlign(a, off) ==
    CASE a.attlen = -1 -> IF a.attalign = "d" THEN DOUBLEALIGN(off) ELSE INTALIGN(off)
      [] a.attlen = 1 -> off
      [] a.attlen = 2 -> SHORTALIGN(off)
      [] a.attlen = 4 -> INTALIGN(off)
      [] OTHER -> IF a.attalign = "d" THEN DOUBLEALIGN(off) ELSE LONGALIGN(off)

\* What ComputeDataSize yields when it ends in elog(ERROR). data_length is
\* a uint32: a negative number stands for the unsigned value with the same
\* 32 bits, and this one is not the sum of any lengths of the model.
SizeError == -2147483647

\* One iteration of the loop of ComputeDataSize, for attribute i (1-based)
\* with data_length so far.
ComputeDataSizeStep(tupleDesc, value, nulls, i, data_length) ==
    IF data_length = SizeError THEN SizeError
    ELSE IF nulls[i] # " " THEN data_length
    ELSE LET a == tupleDesc[i]
             next ==
                 CASE a.attlen = -1 ->
                        (IF a.attalign = "d" THEN DOUBLEALIGN(data_length)
                                             ELSE INTALIGN(data_length))
                        + Int32Of(SubSeq(value[i], 1, 4))
                   [] a.attlen = 1 -> data_length + 1
                   [] a.attlen = 2 -> SHORTALIGN(data_length + 2)
                   [] a.attlen = 4 -> INTALIGN(data_length + 4)
                   [] OTHER ->
                        IF LenBelowInt32(a.attlen) THEN SizeError
                        ELSE IF a.attalign = "d"
                             THEN DOUBLEALIGN(data_length) + a.attlen
                             ELSE LONGALIGN(data_length) + a.attlen
         IN next

RECURSIVE ComputeDataSizeOver(_, _, _, _, _, _)
\* The iterations for attributes lo..hi in order, the first half before
\* the second.
ComputeDataSizeOver(tupleDesc, value, nulls, lo, hi, data_length) ==
    IF lo > hi THEN data_length
    ELSE IF lo = hi THEN ComputeDataSizeStep(tupleDesc, value, nulls, lo, data_length)
    ELSE LET half == ComputeDataSizeOver(tupleDesc, value, nulls, lo, (lo + hi) \div 2,
                                         data_length)
         IN IF half = SizeError THEN SizeError
            ELSE ComputeDataSizeOver(tupleDesc, value, nulls, (lo + hi) \div 2 + 1, hi,
                                     half)

\* The loop of ComputeDataSize from attribute i (1-based) with data_length
\* so far.
ComputeDataSizeFrom(tupleDesc, value, nulls, i, data_length) ==
    ComputeDataSizeOver(tupleDesc, value, nulls, i, Len(tupleDesc), data_length)

\* ComputeDataSize without the `if (nulls[i] != ' ') continue': null
\* attributes are sized like the others.
ComputeDataSizeWithNulls(tupleDesc, value, nulls) ==
    ComputeDataSizeFrom(tupleDesc, value, [i \in 1..Len(nulls) |-> " "], 1, 0)

ComputeDataSize(tupleDesc, value, nulls) ==
    ComputeDataSizeFrom(tupleDesc, value, nulls, 1, 0)

\* PadTo without the alignment step of DataFill: the write pointer is left
\* where the previous attribute ended.
PadToUnaligned(data, off) == data

\* data padded with zero bytes up to offset off (the buffer was zeroed).
PadTo(data, off) == data \o Zeros(off - Len(data))

\* The bytes DataFill stores for a fixed-length attribute of 1, 2 or 4
\* bytes: the low-order bytes of a by-value datum, or the bytes referred to.
SmallBytes(a, v) ==
    IF a.attbyval THEN ToBytes(v, a.attlen)
    ELSE SubSeq(v, 1, a.attlen)

\* One iteration of the loop of DataFill, for attribute i (1-based). st
\* holds data (the bytes from the data start up to the write pointer),
\* infomask, bits (the bitmap bytes written so far), bitmask, err and
\* wild: memmove was called with a negative length, which it takes for a
\* size_t.
DataFillStep(tupleDesc, value, nulls, hasbit, i, st) ==
    IF st.err THEN st
    ELSE
      LET a == tupleDesc[i]
          newbyte == hasbit /\ st.bitmask = 128
          bitmask == IF ~hasbit THEN 0
                     ELSE IF newbyte THEN 1 ELSE st.bitmask * 2
          bits0 == IF newbyte THEN Append(st.bits, 0) ELSE st.bits
          isnull == hasbit /\ nulls[i] = "n"
          bits1 == IF hasbit /\ ~isnull
                   THEN [bits0 EXCEPT ![Len(bits0)] = BitOr(@, bitmask)]
                   ELSE bits0
          at == PadTo(st.data, AttAlign(a, Len(st.data)))
      IN IF isnull THEN
               [st EXCEPT !.infomask = BitOr(@, HEAP_HASNULL),
                          !.bits = bits0, !.bitmask = bitmask]
         ELSE
               CASE a.attlen = -1 ->
                      [data |-> at \o SubSeq(value[i], 1, Int32Of(SubSeq(value[i], 1, 4))),
                       infomask |-> BitOr(st.infomask, HEAP_HASVARLENA),
                       bits |-> bits1, bitmask |-> bitmask, err |-> FALSE,
                       wild |-> st.wild]
                 [] a.attlen \in {1, 2, 4} ->
                      [data |-> at \o SmallBytes(a, value[i]),
                       infomask |-> st.infomask,
                       bits |-> bits1, bitmask |-> bitmask, err |-> FALSE,
                       wild |-> st.wild]
                 [] OTHER ->
                      IF LenBelowInt32(a.attlen)
                      THEN [st EXCEPT !.bits = bits1, !.bitmask = bitmask, !.err = TRUE]
                      ELSE [data |-> at \o SubSeq(value[i], 1, a.attlen),
                            infomask |-> st.infomask,
                            bits |-> bits1, bitmask |-> bitmask, err |-> FALSE,
                            wild |-> st.wild \/ a.attlen < 0]

RECURSIVE DataFillOver(_, _, _, _, _, _, _)
\* The iterations for attributes lo..hi in order, the first half before
\* the second.
DataFillOver(tupleDesc, value, nulls, hasbit, lo, hi, st) ==
    IF lo > hi THEN st
    ELSE IF lo = hi THEN DataFillStep(tupleDesc, value, nulls, hasbit, lo, st)
    ELSE LET half == DataFillOver(tupleDesc, value, nulls, hasbit, lo, (lo + hi) \div 2, st)
         IN IF half.err THEN half
            ELSE DataFillOver(tupleDesc, value, nulls, hasbit, (lo + hi) \div 2 + 1, hi,
                              half)

\* The loop of DataFill from attribute i (1-based).
DataFillFrom(tupleDesc, value, nulls, hasbit, i, st) ==
    DataFillOver(tupleDesc, value, nulls, hasbit, i, Len(tupleDesc), st)

\* DataFill(data, tupleDesc, value, nulls, &infomask, bit): hasbit says
\* whether bit is not NULL.
DataFill(tupleDesc, value, nulls, hasbit) ==
    DataFillFrom(tupleDesc, value, nulls, hasbit, 1,
        [data |-> << >>, infomask |-> 0, bits |-> << >>,
         bitmask |-> IF hasbit THEN 128 ELSE 0, err |-> FALSE, wild |-> FALSE])

\* HasNull looking at the first attribute only.
HasNullFirst(nulls) == nulls[1] # " "

\* The has-null scan of heap_formtuple and index_formtuple.
HasNull(nulls) == \E i \in 1..Len(nulls) : nulls[i] # " "

\* A zeroed buffer of size bytes after DataFill wrote `written' from its
\* start; overflow says that DataFill wrote past the buffer.
Filled(size, written) ==
    [bytes |-> IF Len(written) >= size THEN SubSeq(written, 1, size)
               ELSE PadTo(written, size),
     overflow |-> Len(written) > size]

\* What a builder leaves when it ends in elog(ERROR): no tuple; palloc
\* says whether it had allocated the tuple's buffer by then.
Failed(palloc) == [err |-> TRUE, palloc |-> palloc]

\* Attribute-count ceilings of the two tuple formats.
MaxHeapAttributeNumber == 1600

MaxIndexAttributeNumber == 7

\* BITMAPLEN(natts): bytes of a null bitmap.
BITMAPLEN(natts) == (natts + 7) \div 8

\* sizeof(HeapTupleData) - sizeof(t_bits): the bytes of a row tuple before
\* its bitmap area is counted.
SizeofHeapTupleHeader == 36

\* The header fields of a row tuple that say nothing of its layout, as
\* MemSet leaves them.
NoStamp == [t_oid |-> 0, t_cmin |-> 0, t_cmax |-> 0, t_xmin |-> 0, t_xmax |-> 0,
            t_ctid |-> 0]

\* heap_formtuple testing the attribute count with >= in place of >.
heap_formtupleBelowCeiling(tupleDescriptor, value, nulls) ==
    LET numberOfAttributes == Len(tupleDescriptor)
        hasnull == HasNull(nulls)
        hoff == DOUBLEALIGN(SizeofHeapTupleHeader
                            + (IF hasnull THEN BITMAPLEN(numberOfAttributes) ELSE 0))
        size == ComputeDataSize(tupleDescriptor, value, nulls)
        df == DataFill(tupleDescriptor, value, nulls, hasnull)
        buf == Filled(size, df.data)
    IN IF numberOfAttributes >= MaxHeapAttributeNumber \/ size = SizeError
       THEN Failed(FALSE)
       ELSE IF df.err THEN Failed(TRUE)
       ELSE [err |-> FALSE,
             t_len |-> hoff + size,
             stamp |-> NoStamp,
             t_natts |-> numberOfAttributes,
             t_hoff |-> hoff % 256,
             t_infomask |-> BitOr(df.infomask, HEAP_XMAX_INVALID),
             t_bits |-> IF hasnull THEN PadTo(df.bits, BITMAPLEN(numberOfAttributes))
                        ELSE << >>,
             data |-> buf.bytes,
             overflow |-> buf.overflow]

\* heap_formtuple(tupleDescriptor, value, nulls). The tuple's data region
\* is the part of the buffer from t_hoff on; its length is ComputeDataSize.
heap_formtuple(tupleDescriptor, value, nulls) ==
    LET numberOfAttributes == Len(tupleDescriptor)
        hasnull == HasNull(nulls)
        hoff == DOUBLEALIGN(SizeofHeapTupleHeader
                            + (IF hasnull THEN BITMAPLEN(numberOfAttributes) ELSE 0))
        size == ComputeDataSize(tupleDescriptor, value, nulls)
        df == DataFill(tupleDescriptor, value, nulls, hasnull)
        buf == Filled(size, df.data)
    IN IF numberOfAttributes > MaxHeapAttributeNumber \/ size = SizeError
       THEN Failed(FALSE)
       ELSE IF df.err THEN Failed(TRUE)
       ELSE [err |-> FALSE,
             t_len |-> hoff + size,
             stamp |-> NoStamp,
             t_natts |-> numberOfAttributes,
             t_hoff |-> hoff % 256,
             t_infomask |-> BitOr(df.infomask, HEAP_XMAX_INVALID),
             t_bits |-> IF hasnull THEN PadTo(df.bits, BITMAPLEN(numberOfAttributes))
                        ELSE << >>,
             data |-> buf.bytes,
             overflow |-> buf.overflow]

\* The values of an unsigned short: `infomask |= size' keeps the low 16
\* bits (the size has none of the bits of INDEX_SIZE_OVERFLOW by then, so
\* that | adds).
SizeofShortRange == 65536

\* IndexInfoFindDataOffset(t_info): the header is followed by the bitmap
\* area only when the tuple has nulls; the data start is aligned.
IndexInfoFindDataOffset(t_info) ==
    IF BitAnd(t_info, INDEX_NULL_MASK) = 0 THEN SizeofIndexTupleData
    ELSE DOUBLEALIGN(SizeofIndexTupleData + BITMAPLEN(MaxIndexAttributeNumber))

\* index_formtuple(tupleDescriptor, value, null).
index_formtuple(tupleDescriptor, value, null) ==
    LET numberOfAttributes == Len(tupleDescriptor)
        hasnull == HasNull(null)
        infomask0 == IF hasnull THEN INDEX_NULL_MASK ELSE 0
        hoff == IndexInfoFindDataOffset(infomask0)
        datasize == ComputeDataSize(tupleDescriptor, value, null)
        size == DOUBLEALIGN(hoff + datasize)
        df == DataFill(tupleDescriptor, value, null, hasnull)
        buf == Filled(size - hoff, df.data)
        infomask1 == IF BitAnd(df.infomask, 2) # 0
                     THEN BitOr(infomask0, INDEX_VAR_MASK) ELSE infomask0
    IN IF numberOfAttributes > MaxIndexAttributeNumber \/ datasize = SizeError
       THEN Failed(FALSE)
       ELSE IF df.err \/ BitAnd(size, INDEX_SIZE_OVERFLOW) # 0 THEN Failed(TRUE)
       ELSE [err |-> FALSE,
             t_info |-> (infomask1 + size) % SizeofShortRange,
             bits |-> IF hasnull THEN PadTo(df.bits, BITMAPLEN(MaxIndexAttributeNumber))
                      ELSE << >>,
             data |-> buf.bytes,
             overflow |-> buf.overflow]

(* ------------------------------ accessors ----------------------------- *)

\* The field of at most three significant bytes at offset off.
Field(buf, off) == FromBytes(BytesAt(buf, off, 3))

\* att_isnull(ATT, BITS): bit ATT of the bitmap is clear.
att_isnull(ATT, BITS) == BitAnd(ByteAt(BITS, ATT \div 8), Pow2(ATT % 8)) = 0

HeapTupleNoNulls(tup) == BitAnd(tup.t_infomask, HEAP_HASNULL) = 0

HeapTupleAllFixed(tup) == BitAnd(tup.t_infomask, HEAP_HASVARLENA) = 0

IndexTupleNoNulls(tup) == BitAnd(tup.t_info, INDEX_NULL_MASK) = 0

IndexTupleAllFixed(tup) == BitAnd(tup.t_info, INDEX_VAR_MASK) = 0

\* Upper limit of the byte sequences the model builds for a returned
\* pointer; a longer (garbage) length is reported as <<-1>>.
MaxDeref == 64

\* The number of bytes fetchatt's result stands for: the field read for a
\* by-value attribute, the value pointed to for a by-reference one.
FetchLen(a, data, off) ==
    IF a.attbyval /\ a.attlen # -1 THEN
        IF a.attlen > 2 THEN 4 ELSE IF a.attlen < 2 THEN 1 ELSE 2
    ELSE IF a.attlen = -1 THEN VARSIZE(data, off) ELSE a.attlen

\* fetchatt(A, T) with T = tp + off: the inline value of a by-value
\* attribute, and for a by-reference attribute the bytes the returned
\* pointer refers to.
fetchatt(a, data, off) ==
    LET n == FetchLen(a, data, off)
    IN IF a.attbyval /\ a.attlen # -1 THEN SignedOf(BytesAt(data, off, n))
       ELSE IF n < 0 \/ n > MaxDeref THEN <<-1>> ELSE BytesAt(data, off, n)

\* The value fetchatt returns for offset off lies outside the tuple's data.
FetchWild(a, data, off) ==
    \/ (a.attlen = -1 /\ ~InBuf(data, off, 4))
    \/ FetchLen(a, data, off) < 0
    \/ ~InBuf(data, off, FetchLen(a, data, off))

\* att[j]->attcacheoff for a C index j.
CacheOff(cache, j) == IF j < Len(cache) THEN cache[j + 1] ELSE Unset

RECURSIVE ScanCached(_, _)
\* `while (att[j]->attcacheoff > 0) j++': the index at which it stops. It
\* stops at natts when every entry from j on is cached: the read of
\* att[natts] is outside the descriptor.
ScanCached(cache, j) ==
    IF j < Len(cache) /\ cache[j + 1] > 0 THEN ScanCached(cache, j + 1) ELSE j

\* The result of an accessor call: the offset and value returned, the
\* cached offsets afterwards, whether the slow walk was taken, the cached
\* offsets stored (C index, offset), whether elog(ERROR) was raised,
\* whether a descriptor entry at an index >= natts was read (oob) and
\* whether tuple bytes outside the data region were read (wild).
Result(off, val, cache, slow, writes, err, oob, wild) ==
    [off |-> off, val |-> val, cache |-> cache, slow |-> slow,
     writes |-> writes, err |-> err, oob |-> oob, wild |-> wild]

\* The return of an accessor: fetchatt at offset off of attribute a.
Fetched(a, data, off, cache, slow, writes, oob, wild) ==
    Result(off, fetchatt(a, data, off), cache, slow, writes, FALSE, oob,
           wild \/ FetchWild(a, data, off))

\* An accessor call ended by elog(ERROR).
Raised(cache, slow, writes, oob, wild) ==
    Result(0, <<-1>>, cache, slow, writes, TRUE, oob, wild)

RECURSIVE FillCache(_, _, _, _, _, _, _)
\* The `for (; j < attnum + 1; j++)' loop of the non-slow path, which
\* stores the offsets of attributes j..attnum. strict is the index
\* accessor's length test (attlen > sizeof(int32), else error).
FillCache(att, attnum, j, off, cache, writes, strict) ==
    IF j >= attnum + 1 THEN [cache |-> cache, writes |-> writes, err |-> FALSE]
    ELSE LET a == att[j + 1]
             bad == a.attlen \notin {-1, 1, 2, 4}
                    /\ (IF strict THEN ~LenAboveInt32(a.attlen)
                        ELSE LenBelowInt32(a.attlen))
             o == AttAlign(a, off)
         IN IF bad THEN [cache |-> cache, writes |-> writes, err |-> TRUE]
            ELSE FillCache(att, attnum, j + 1, o + a.attlen,
                           [cache EXCEPT ![j + 1] = o],
                           writes \cup {<<j, o>>}, strict)

\* The non-slow path from `att[0]->attcacheoff = 0' to the return, the
\* same in both accessors but for the length test.
FastPath(att, data, attnum, cache, strict) ==
    LET c0 == [cache EXCEPT ![1] = 0]
        j == ScanCached(c0, 1)
        oob == j >= Len(cache)
        off == CacheOff(c0, j - 1) + (IF j - 1 < Len(att) THEN att[j].attlen ELSE 0)
        f == FillCache(att, attnum, j, off, c0, {<<0, 0>>}, strict)
    IN IF f.err THEN Raised(f.cache, FALSE, f.writes, oob, FALSE)
       ELSE Fetched(att[attnum + 1], data, f.cache[attnum + 1], f.cache, FALSE,
                    f.writes, oob, FALSE)

\* The length test of the switch defaults of nocachegetattr.
HeapBadLen(a) == a.attlen \notin {-1, 1, 2, 4} /\ LenBelowInt32(a.attlen)

\* The state of a slow walk before its first iteration.
WalkStart(cache) ==
    [cache |-> cache, writes |-> {}, err |-> FALSE, off |-> 0, wild |-> FALSE]

RECURSIVE HeapWalk(_, _, _, _, _, _, _)
\* The slow loop of nocachegetattr, `for (i = 0; i < attnum; i++)', from
\* iteration i with the running offset off.
HeapWalk(tup, att, attnum, i, off, usecache, w) ==
    IF i >= attnum \/ w.err THEN [w EXCEPT !.off = off]
    ELSE IF ~HeapTupleNoNulls(tup) /\ att_isnull(i, tup.t_bits) THEN
        HeapWalk(tup, att, attnum, i + 1, off, FALSE, w)
    ELSE
      LET a == att[i + 1]
          aligned == AttAlign(a, off)
          hit == usecache /\ w.cache[i + 1] > 0
          start == IF hit THEN w.cache[i + 1] ELSE aligned
          store == ~hit /\ usecache
          w1 == IF store
                THEN [w EXCEPT !.cache[i + 1] = start,
                               !.writes = @ \cup {<<i, start>>}]
                ELSE w
          next == CASE a.attlen = 1 -> start + 1
                    [] a.attlen = 2 -> start + 2
                    [] a.attlen = 4 -> start + 4
                    [] a.attlen = -1 -> start + VARSIZE(tup.data, start)
                    [] OTHER -> start + a.attlen
          w2 == IF a.attlen = -1 /\ ~InBuf(tup.data, start, 4)
                THEN [w1 EXCEPT !.wild = TRUE] ELSE w1
      IN IF HeapBadLen(a) THEN [w EXCEPT !.err = TRUE]
         ELSE HeapWalk(tup, att, attnum, i + 1, next,
                       usecache /\ a.attlen # -1, w2)

\* The walk of nocachegetattr when slow is set, up to the return.
HeapSlowPath(tup, att, attnum, cache) ==
    LET w == HeapWalk(tup, att, attnum, 0, 0, TRUE, WalkStart(cache))
        a == att[attnum + 1]
    IN IF w.err \/ HeapBadLen(a) THEN Raised(w.cache, TRUE, w.writes, FALSE, w.wild)
       ELSE Fetched(a, tup.data, AttAlign(a, w.off), w.cache, TRUE, w.writes,
                    FALSE, w.wild)

\* HeapNullBefore with the test of nocache_index_getattr: a mask
\* (finalbit << 1) - 1 over the bitmap byte of attribute attnum.
HeapNullBeforeByMask(tup, attnum) ==
    LET n == ByteAt(tup.t_bits, attnum \div 8)
        mask == ((attnum % 8) * 2) - 1
    IN IF mask < 0 THEN n # 255 ELSE BitAnd(255 - n, mask) # 0

\* `for (i = 0; i < attnum && !slow; i++) if (att_isnull(i, bp)) slow = 1'
HeapNullBefore(tup, attnum) ==
    \E i \in 0..(attnum - 1) : att_isnull(i, tup.t_bits)

\* VarlenaBefore without the scan for variable-length attributes.
VarlenaBeforeSkipped(att, attnum) == FALSE

\* `for (j = 0; j < attnum && !slow; j++) if (att[j]->attlen < 1) slow = 1'
VarlenaBefore(att, attnum) == \E j \in 0..(attnum - 1) : att[j + 1].attlen < 1

\* nocachegetattr trusting a populated cached offset before it has
\* tested the bitmap for nulls before the attribute.
nocachegetattrTrusting(tup, attnum1, att, cache) ==
    LET attnum == attnum1 - 1
    IN IF cache[attnum + 1] > 0 THEN
           Fetched(att[attnum + 1], tup.data, cache[attnum + 1], cache, FALSE,
                   {}, FALSE, FALSE)
       ELSE IF attnum = 0 THEN
           Fetched(att[1], tup.data, 0, cache, FALSE, {}, FALSE, FALSE)
       ELSE HeapSlowPath(tup, att, attnum, cache)

\* nocachegetattr(tup, attnum, tupleDesc, isnull) with attnum 1-based;
\* cache holds the attcacheoff fields of tupleDesc.
nocachegetattr(tup, attnum1, att, cache) ==
    LET attnum == attnum1 - 1
        slow0 == ~HeapTupleNoNulls(tup) /\ HeapNullBefore(tup, attnum)
    IN IF ~slow0 /\ cache[attnum + 1] > 0 THEN
           Fetched(att[attnum + 1], tup.data, cache[attnum + 1], cache, FALSE,
                   {}, FALSE, FALSE)
       ELSE IF ~slow0 /\ attnum = 0 THEN
           Fetched(att[1], tup.data, 0, cache, FALSE, {}, FALSE, FALSE)
       ELSE IF ~slow0 /\ ~(~HeapTupleAllFixed(tup) /\ VarlenaBefore(att, attnum)) THEN
           FastPath(att, tup.data, attnum, cache, FALSE)
       ELSE HeapSlowPath(tup, att, attnum, cache)

\* The test of nocache_index_getattr for nulls before attribute attnum
\* (0-based): the bitmap bytes before byte attnum >> 3 must be all ones,
\* and of the last byte the bits selected by mask = (finalbit << 1) - 1.
\* n is a (signed) char, so ~n is 0 exactly for the byte 0xFF.
IndexNullBefore(tup, attnum) ==
    LET byte == attnum \div 8
        finalbit == attnum % 8
        mask == (finalbit * 2) - 1
        early == \E i \in 0..(byte - 1) : ByteAt(tup.bits, i) # 255
        n == ByteAt(tup.bits, byte)
        last == IF mask < 0 THEN n # 255 ELSE BitAnd(255 - n, mask) # 0
    IN early \/ last

RECURSIVE IndexWalk(_, _, _, _, _, _, _)
\* The slow loop of nocache_index_getattr from iteration i.
IndexWalk(tup, att, attnum, i, off, usecache, w) ==
    IF i >= attnum \/ w.err THEN [w EXCEPT !.off = off]
    ELSE IF ~IndexTupleNoNulls(tup) /\ att_isnull(i, tup.bits) THEN
        IndexWalk(tup, att, attnum, i + 1, off, FALSE, w)
    ELSE
      LET a == att[i + 1]
          hit == usecache /\ w.cache[i + 1] > 0
          off1 == IF hit THEN w.cache[i + 1] ELSE off
          use1 == usecache /\ ~(hit /\ a.attlen = -1)
          w1 == IF use1
                THEN [w EXCEPT !.cache[i + 1] = off1,
                               !.writes = @ \cup {<<i, off1>>}]
                ELSE w
          bad == a.attlen \notin {-1, 1, 2, 4} /\ ~LenAboveInt32(a.attlen)
          vstart == IF a.attalign = "d" THEN DOUBLEALIGN(off1) ELSE INTALIGN(off1)
          next == CASE a.attlen = 1 -> off1 + 1
                    [] a.attlen = 2 -> SHORTALIGN(off1) + 2
                    [] a.attlen = 4 -> INTALIGN(off1) + 4
                    [] a.attlen = -1 -> vstart + VARSIZE(tup.data, vstart)
                    [] OTHER ->
                         IF a.attalign = "d" THEN DOUBLEALIGN(off1) + a.attlen
                         ELSE LONGALIGN(off1) + a.attlen
          w2 == IF a.attlen = -1 /\ ~InBuf(tup.data, vstart, 4)
                THEN [w1 EXCEPT !.wild = TRUE] ELSE w1
      IN IF hit /\ a.attlen # -1 THEN
             \* `continue': the attribute's length is not added
             IndexWalk(tup, att, attnum, i + 1, off1, usecache, w)
         ELSE IF bad THEN [w1 EXCEPT !.err = TRUE]
         ELSE IndexWalk(tup, att, attnum, i + 1, next,
                        use1 /\ a.attlen # -1, w2)

\* The walk of nocache_index_getattr when slow is set, up to the return.
IndexSlowPath(tup, att, attnum, cache) ==
    LET w == IndexWalk(tup, att, attnum, 0, 0, TRUE, WalkStart(cache))
        a == att[attnum + 1]
    IN IF w.err \/ HeapBadLen(a) THEN Raised(w.cache, TRUE, w.writes, FALSE, w.wild)
       ELSE Fetched(a, tup.data, AttAlign(a, w.off), w.cache, TRUE, w.writes,
                    FALSE, w.wild)

\* nocache_index_getattr(tup, attnum, tupleDesc, isnull) with attnum
\* 1-based.
nocache_index_getattr(tup, attnum1, att, cache) ==
    LET attnum == attnum1 - 1
        slow0 == ~IndexTupleNoNulls(tup) /\ IndexNullBefore(tup, attnum)
    IN IF ~slow0 /\ cache[attnum + 1] > 0 THEN
           Fetched(att[attnum + 1], tup.data, cache[attnum + 1], cache, FALSE,
                   {}, FALSE, FALSE)
       ELSE IF ~slow0 /\ ~(~IndexTupleAllFixed(tup) /\ VarlenaBefore(att, attnum)) THEN
           FastPath(att, tup.data, attnum, cache, TRUE)
       ELSE IndexSlowPath(tup, att, attnum, cache)

(* ------------------------------- inputs ------------------------------- *)

\* The attribute types of the model: (attlen, attalign, attbyval) of char,
\* int2, int4, float8 and a variable-length type.
AttKinds ==
    { [attlen |-> 1, attalign |-> "c", attbyval |-> TRUE],
      [attlen |-> 2, attalign |-> "s", attbyval |-> TRUE],
      [attlen |-> 4, attalign |-> "i", attbyval |-> TRUE],
      [attlen |-> 8, attalign |-> "d", attbyval |-> FALSE],
      [attlen |-> -1, attalign |-> "i", attbyval |-> FALSE] }

\* VARSIZE of the variable-length values: 4 bytes of length word plus 1 or
\* 4 bytes of payload.
VarSizes == {5, 8}

Descriptors == UNION { [1..n -> AttKinds] : n \in 1..MaxAtts }

\* The descriptors [fixed4, x, fixed4, varlen, fixed4], x of any type.
NullPrefixDescriptors ==
    LET fixed4 == [attlen |-> 4, attalign |-> "i", attbyval |-> TRUE]
        varlen == [attlen |-> -1, attalign |-> "i", attbyval |-> FALSE]
    IN { <<fixed4, x, fixed4, varlen, fixed4>> : x \in AttKinds }

\* Descriptors of more than 8 attributes, all of one type: their null
\* bitmap has a second byte.
WideDescriptors ==
    { [i \in 1..n |-> a] : n \in 9..10,
                           a \in {k \in AttKinds : k.attlen \in {1, 4}} }

\* The descriptors of the specifications that form tuples and read every
\* attribute back.
CodecDescriptors == Descriptors \cup NullPrefixDescriptors \cup WideDescriptors

\* Every length class with every declared alignment class.
AlignKinds ==
    { [attlen |-> l, attalign |-> c, attbyval |-> (l \in {1, 2, 4})] :
          l \in {1, 2, 4, 8, -1}, c \in {"c", "s", "i", "d"} }

AlignDescriptors == UNION { [1..n -> AlignKinds] : n \in 1..MaxAlignAtts }

\* The descriptors of the specifications that follow sequences of
\* nocachegetattr calls: attributes of type char, int4 and variable-length.
WalkKinds == {a \in AttKinds : a.attlen \in {-1, 1, 4}}

WalkDescriptors == UNION { [1..n -> WalkKinds] : n \in 1..MaxWalkAtts }

\* Attribute counts at and around the ceilings of the two formats.
CeilingCounts ==
    UNION { (m - Margin)..(m + Margin) :
              m \in {MaxIndexAttributeNumber, MaxHeapAttributeNumber} }

\* Descriptors of that many attributes of one fixed-length type.
CeilingDescriptors ==
    { [i \in 1..n |-> a] : n \in CeilingCounts,
                           a \in {k \in AttKinds : k.attlen \in {1, 4}} }

\* The nulls[] arrays tried on them: no null, or one among the first
\* attributes.
SparseNulls(d) ==
    { [i \in 1..Len(d) |-> IF i = p THEN "n" ELSE " "] : p \in 0..MaxAtts }

\* The first size that does not fit the 13-bit size field of t_info.
SizeFieldRange == 8192

\* VARSIZE of the large values: around the sizes at which the tuple
\* outgrows the size field, an unsigned short, and both.
BigVarSizes ==
    { m + 8 * j : m \in {SizeFieldRange, SizeofShortRange, SizeofShortRange + SizeFieldRange},
                  j \in (0 - Spread - 2)..Spread }

\* A variable-length datum with VARSIZE size.
BigDatum(size) == ToBytes(size, 4) \o [k \in 1..(size - 4) |-> 1 + (k % 251)]

\* Descriptors with one variable-length attribute, alone or beside a
\* fixed-length one.
BigDescriptors ==
    LET var == CHOOSE a \in AttKinds : a.attlen = -1
        fixed == {a \in AttKinds : a.attlen \in {1, 4}}
    IN {<<var>>} \cup {<<a, var>> : a \in fixed} \cup {<<var, a>> : a \in fixed}

\* Descriptors of the tuples that are rebuilt.
ModDescriptors == UNION { [1..n -> WalkKinds] : n \in 1..MaxModAtts }

\* Descriptors of the tuples that are read several times.
HeldDescriptors == UNION { [1..n -> WalkKinds] : n \in 1..MaxHeldAtts }

\* Byte k of the value of attribute i: different for every attribute and
\* every position, never 0.
Mark(i, k) == 16 * i + k

\* The fixed-length datum of attribute i of type a.
FixedDatum(a, i) ==
    IF a.attbyval THEN SignedOf([k \in 1..a.attlen |-> Mark(i, k)])
    ELSE [k \in 1..a.attlen |-> Mark(i, k)]

\* The variable-length datum of attribute i with VARSIZE size.
VarDatum(i, size) == ToBytes(size, 4) \o [k \in 1..(size - 4) |-> Mark(i, k)]

\* The attributes of d that are variable-length and not null in n.
VarAtts(d, n) == {i \in 1..Len(d) : d[i].attlen = -1 /\ n[i] = " "}

\* The value[] arrays for a descriptor and a nulls[] array: the datum of a
\* null attribute is never read, it is the smallest one of its type.
ValuesOf(d, n) ==
    { [i \in 1..Len(d) |->
          IF d[i].attlen # -1 THEN FixedDatum(d[i], i)
          ELSE IF i \in VarAtts(d, n) THEN VarDatum(i, sz[i])
          ELSE VarDatum(i, 5)] : sz \in [VarAtts(d, n) -> VarSizes] }

\* Their value[] array.
SmallValues(d) == [i \in 1..Len(d) |-> FixedDatum(d[i], 1 + (i % 4))]

\* The nulls[] arrays for a descriptor.
NullsOf(d) == [1..Len(d) -> {" ", "n"}]

\* All cached offsets unset.
NoCache(d) == [i \in 1..Len(d) |-> Unset]

(* ---------------------------- state machine --------------------------- *)

\* desc: the attributes (attlen, attalign, attbyval) of the relation;
\* attcacheoff, iattcacheoff: the attcacheoff fields of the heap
\* relation's and of the index relation's tuple descriptor; value, nulls:
\* the arrays the current tuple was formed from; htup, itup: the current
\* heap and index tuple; ret: what the last call returned.
VARIABLES desc, attcacheoff, iattcacheoff, value, nulls, htup, itup, ret

\* The static variables of commands/copy.c: copy_dest, copy_file (the
\* stream: its bytes, the read position, a byte pushed back, the EOF
\* indicator), copy_msgbuf (data and cursor; len is the length of data),
\* fe_eof, eol_type, copy_lineno and attribute_buf (its data); frontend is
\* what the client has sent and the backend has not read yet: the bytes of
\* the old protocol and the messages (mtype, body) of the new one.
VARIABLES copy_dest, copy_file, frontend, copy_msgbuf, fe_eof, eol_type,
          copy_lineno, attribute_buf

copyVars == <<copy_dest, copy_file, frontend, copy_msgbuf, fe_eof, eol_type,
              copy_lineno, attribute_buf>>

\* The static variables of access/gist/gistscan.c and what they refer to:
\* GISTScans, the private list of registered scans, newest first; scan, the
\* scan descriptors by address (indexRelation, currentItemData,
\* currentMarkData, opaque); PrivateRefCount, the pins this backend holds
\* on each buffer; CurrentResourceOwner.
VARIABLES GISTScans, scan, PrivateRefCount, CurrentResourceOwner

gistVars == <<GISTScans, scan, PrivateRefCount, CurrentResourceOwner>>

vars == <<desc, attcacheoff, iattcacheoff, value, nulls, htup, itup, ret, copyVars,
          gistVars>>

\* A stream over the bytes data, nothing read yet.
Opened(data) == [data |-> data, pos |-> 0, pushed |-> << >>, eof |-> FALSE]

\* What the client has sent.
Sent(stream, msgs) == [stream |-> stream, msgs |-> msgs]

\* makeStringInfo(): an empty buffer.
makeStringInfo == [data |-> << >>, cursor |-> 0]

\* No COPY is running.
NoCopy ==
    /\ copy_dest = "COPY_FILE"
    /\ copy_file = Opened(<< >>)
    /\ frontend = Sent(<< >>, << >>)
    /\ copy_msgbuf = makeStringInfo
    /\ fe_eof = FALSE
    /\ eol_type = "EOL_UNKNOWN"
    /\ copy_lineno = 0
    /\ attribute_buf = << >>

\* No GiST scan is open.
NoScans ==
    /\ GISTScans = << >>
    /\ scan = << >>
    /\ PrivateRefCount = << >>
    /\ CurrentResourceOwner = 0

NoTuple == [err |-> TRUE]

Idle == [op |-> "none"]

InitWith(descriptors) ==
    /\ desc \in descriptors
    /\ attcacheoff = NoCache(desc)
    /\ iattcacheoff = NoCache(desc)
    /\ value = << >>
    /\ nulls = << >>
    /\ htup = NoTuple
    /\ itup = NoTuple
    /\ ret = Idle
    /\ NoCopy
    /\ NoScans

Init == InitWith(Descriptors)

CodecInit == InitWith(CodecDescriptors)

AlignInit == InitWith(AlignDescriptors)

WalkInit == InitWith(WalkDescriptors)

HeldInit == InitWith(HeldDescriptors)

ModInit == InitWith(ModDescriptors)

CeilingInit == InitWith(CeilingDescriptors)

BigInit == InitWith(BigDescriptors)

\* heap_attisnull reading the bitmap without the HeapTupleNoNulls test.
heap_attisnullByBitmap(tup, attnum) ==
    IF attnum > tup.t_natts THEN 1
    ELSE IF att_isnull(attnum - 1, tup.t_bits) THEN 1 ELSE 0

\* The attribute numbers of the system attributes.
SelfItemPointerAttributeNumber == -1

ObjectIdAttributeNumber == -2

MinTransactionIdAttributeNumber == -3

MinCommandIdAttributeNumber == -4

MaxTransactionIdAttributeNumber == -5

MaxCommandIdAttributeNumber == -6

\* The case labels shared by the switches over system attributes.
SystemAttributeNumbers ==
    {SelfItemPointerAttributeNumber, ObjectIdAttributeNumber,
     MinTransactionIdAttributeNumber, MinCommandIdAttributeNumber,
     MaxTransactionIdAttributeNumber, MaxCommandIdAttributeNumber}

\* What a routine that returns an int yields when it ends in elog(ERROR).
Elog == -1

\* heap_attisnull(tup, attnum).
heap_attisnull(tup, attnum) ==
    IF attnum > tup.t_natts THEN 1
    ELSE IF HeapTupleNoNulls(tup) THEN 0
    ELSE IF attnum > 0 THEN (IF att_isnull(attnum - 1, tup.t_bits) THEN 1 ELSE 0)
    ELSE IF attnum \in SystemAttributeNumbers THEN 0
    ELSE Elog

\* The attribute numbers of the non-null attributes.
NonNull(n) == {i \in 1..Len(n) : n[i] = " "}

\* A call of heap_formtuple; ret records what ComputeDataSize returned,
\* how far DataFill advanced through the data region and the bitmap bytes
\* it wrote.
HeapFormTuple ==
    /\ ret = Idle
    /\ \E n \in NullsOf(desc) : \E v \in ValuesOf(desc, n) :
         /\ value' = v
         /\ nulls' = n
         /\ htup' = heap_formtuple(desc, v, n)
         /\ ret' = [op |-> "heap_formtuple",
                    size |-> ComputeDataSize(desc, v, n),
                    filled |-> Len(DataFill(desc, v, n, HasNull(n)).data),
                    bits |-> DataFill(desc, v, n, HasNull(n)).bits]
    /\ UNCHANGED <<copyVars, gistVars, desc, attcacheoff, iattcacheoff, itup>>

\* Every attribute of the heap tuple read back: heap_attisnull for each
\* attribute number and, for each non-null one, nocachegetattr on a
\* descriptor whose cached offsets are all unset.
HeapDecode ==
    /\ ret.op = "heap_formtuple"
    /\ ~htup.err
    /\ ret' = [op |-> "heap_decode",
               isnull |-> [i \in 1..Len(desc) |-> heap_attisnull(htup, i)],
               res |-> [i \in 1..Len(desc) |->
                          IF nulls[i] = " "
                          THEN nocachegetattr(htup, i, desc, NoCache(desc))
                          ELSE Idle]]
    /\ UNCHANGED <<copyVars, gistVars, desc, attcacheoff, iattcacheoff, value, nulls, htup, itup>>

\* A call of index_formtuple.
IndexFormTuple ==
    /\ ret = Idle
    /\ \E n \in NullsOf(desc) : \E v \in ValuesOf(desc, n) :
         /\ value' = v
         /\ nulls' = n
         /\ itup' = index_formtuple(desc, v, n)
         /\ ret' = [op |-> "index_formtuple"]
    /\ UNCHANGED <<copyVars, gistVars, desc, attcacheoff, iattcacheoff, htup>>

\* Every non-null attribute of the index tuple read back by
\* nocache_index_getattr on a descriptor whose cached offsets are all
\* unset; nulltest is the outcome of its test for nulls before the
\* attribute.
IndexDecode ==
    /\ ret.op = "index_formtuple"
    /\ ~itup.err
    /\ ret' = [op |-> "index_decode",
               nulltest |-> [i \in 1..Len(desc) |->
                               ~IndexTupleNoNulls(itup) /\ IndexNullBefore(itup, i - 1)],
               res |-> [i \in 1..Len(desc) |->
                          IF nulls[i] = " "
                          THEN nocache_index_getattr(itup, i, desc, NoCache(desc))
                          ELSE Idle]]
    /\ UNCHANGED <<copyVars, gistVars, desc, attcacheoff, iattcacheoff, value, nulls, htup, itup>>

\* nocachegetattr called for a non-null attribute of a tuple formed by
\* heap_formtuple; fresh is what the same call returns on a descriptor
\* whose cached offsets are all unset.
HeapGetAttr ==
    /\ ret = Idle
    /\ \E n \in NullsOf(desc) : \E v \in ValuesOf(desc, n) :
         /\ value' = v
         /\ nulls' = n
         /\ htup' = heap_formtuple(desc, v, n)
         /\ ~htup'.err
         /\ \E i \in NonNull(n) :
              ret' = [op |-> "nocachegetattr", attnum |-> i,
                      before |-> attcacheoff,
                      res |-> nocachegetattr(htup', i, desc, attcacheoff),
                      fresh |-> nocachegetattr(htup', i, desc, NoCache(desc))]
         /\ attcacheoff' = ret'.res.cache
    /\ UNCHANGED <<copyVars, gistVars, desc, iattcacheoff, itup>>

\* nocache_index_getattr called for a non-null attribute of a tuple formed
\* by index_formtuple from one of the given nulls[] arrays.
IndexGetAttrOf(nullChoices) ==
    /\ ret = Idle
    /\ \E n \in nullChoices : \E v \in ValuesOf(desc, n) :
         /\ value' = v
         /\ nulls' = n
         /\ itup' = index_formtuple(desc, v, n)
         /\ ~itup'.err
         /\ \E i \in NonNull(n) :
              ret' = [op |-> "nocache_index_getattr", attnum |-> i,
                      before |-> iattcacheoff,
                      res |-> nocache_index_getattr(itup', i, desc, iattcacheoff),
                      fresh |-> nocache_index_getattr(itup', i, desc, NoCache(desc))]
         /\ iattcacheoff' = ret'.res.cache
    /\ UNCHANGED <<copyVars, gistVars, desc, attcacheoff, htup>>

IndexGetAttr == IndexGetAttrOf(NullsOf(desc))

\* The same on tuples without null attributes.
IndexGetAttrNoNulls == IndexGetAttrOf({[i \in 1..Len(desc) |-> " "]})

\* The same attribute of the heap tuple and of the index tuple formed from
\* the same arrays, read by the two accessors.
BothGetAttr ==
    /\ ret = Idle
    /\ \E n \in NullsOf(desc) : \E v \in ValuesOf(desc, n) :
         /\ value' = v
         /\ nulls' = n
         /\ htup' = heap_formtuple(desc, v, n)
         /\ itup' = index_formtuple(desc, v, n)
         /\ ~htup'.err /\ ~itup'.err
         /\ \E i \in NonNull(n) :
              ret' = [op |-> "both", attnum |-> i,
                      hres |-> nocachegetattr(htup', i, desc, attcacheoff),
                      ires |-> nocache_index_getattr(itup', i, desc, iattcacheoff)]
         /\ attcacheoff' = ret'.hres.cache
         /\ iattcacheoff' = ret'.ires.cache
    /\ UNCHANGED <<copyVars, gistVars, desc>>

\* The tuple held is a row tuple, formed or read last.
HeapTupleHeld == ret.op \in {"heap_formtuple", "nocachegetattr"} /\ ~htup.err

\* The tuple held is an index tuple, formed or read last.
IndexTupleHeld == ret.op \in {"index_formtuple", "nocache_index_getattr"} /\ ~itup.err

\* HeapGetAttrHeld keeping the offset it found in the first byte of the
\* tuple's data.
HeapGetAttrHeldInTuple ==
    /\ HeapTupleHeld
    /\ \E i \in NonNull(nulls) :
         ret' = [op |-> "nocachegetattr", attnum |-> i,
                 res |-> nocachegetattr(htup, i, desc, attcacheoff)]
    /\ attcacheoff' = ret'.res.cache
    /\ htup' = [htup EXCEPT !.data = ToBytes(ret'.res.off, 1) \o Tail(@)]
    /\ UNCHANGED <<copyVars, gistVars, desc, iattcacheoff, value, nulls, itup>>

\* nocachegetattr called for a non-null attribute of the row tuple held.
HeapGetAttrHeld ==
    /\ HeapTupleHeld
    /\ \E i \in NonNull(nulls) :
         ret' = [op |-> "nocachegetattr", attnum |-> i,
                 res |-> nocachegetattr(htup, i, desc, attcacheoff)]
    /\ attcacheoff' = ret'.res.cache
    /\ UNCHANGED <<copyVars, gistVars, desc, iattcacheoff, value, nulls, htup, itup>>

\* nocache_index_getattr called for a non-null attribute of the index
\* tuple held.
IndexGetAttrHeld ==
    /\ IndexTupleHeld
    /\ \E i \in NonNull(nulls) :
         ret' = [op |-> "nocache_index_getattr", attnum |-> i,
                 res |-> nocache_index_getattr(itup, i, desc, iattcacheoff)]
    /\ iattcacheoff' = ret'.res.cache
    /\ UNCHANGED <<copyVars, gistVars, desc, attcacheoff, value, nulls, htup, itup>>

\* The caller is done with the returned value and with the tuple.
Release ==
    /\ ret.op \in {"nocachegetattr", "nocache_index_getattr", "both",
                  "heap_formtuple", "index_formtuple",
                  "heap_copytuple", "CopyIndexTuple", "heap_modifytuple",
                  "heap_attisnull", "heap_getsysattr"}
    /\ ret' = Idle
    /\ value' = << >>
    /\ nulls' = << >>
    /\ htup' = NoTuple
    /\ itup' = NoTuple
    /\ UNCHANGED <<copyVars, gistVars, desc, attcacheoff, iattcacheoff>>

\* The cached offset of one attribute of the heap descriptor is set back
\* to unset between two calls.
ResetCache ==
    /\ ret = Idle
    /\ \E j \in 1..Len(desc) :
         /\ attcacheoff[j] # Unset
         /\ attcacheoff' = [attcacheoff EXCEPT ![j] = Unset]
    /\ UNCHANGED <<copyVars, gistVars, desc, iattcacheoff, value, nulls, htup, itup, ret>>

\* Row tuples formed and read back.
Next == HeapFormTuple \/ HeapDecode

Spec == CodecInit /\ [][Next]_vars

\* Index tuples formed and read back.
IndexCodecNext == IndexFormTuple \/ IndexDecode

IndexCodecSpec == CodecInit /\ [][IndexCodecNext]_vars

\* Sequences of nocachegetattr calls on one descriptor.
HeapNext == HeapGetAttr \/ Release

HeapSpec == WalkInit /\ [][HeapNext]_vars

\* The same with cached offsets reset between calls.
HeapResetNext == HeapGetAttr \/ Release \/ ResetCache

HeapResetSpec == WalkInit /\ [][HeapResetNext]_vars

\* Sequences of nocache_index_getattr calls on one descriptor.
IndexNext == IndexGetAttr \/ Release

IndexSpec == Init /\ [][IndexNext]_vars

IndexNoNullsNext == IndexGetAttrNoNulls \/ Release

IndexNoNullsSpec == Init /\ [][IndexNoNullsNext]_vars

\* Both accessors called in step.
BothNext == BothGetAttr \/ Release

BothSpec == Init /\ [][BothNext]_vars

\* Row tuples and index tuples formed and released.
FormNext == HeapFormTuple \/ IndexFormTuple \/ Release

FormSpec == CodecInit /\ [][FormNext]_vars

\* The same over every length and alignment class.
AlignSpec == AlignInit /\ [][FormNext]_vars

\* Tuples formed, read any number of times and released.
HeldNext ==
    HeapFormTuple \/ IndexFormTuple \/ HeapGetAttrHeld \/ IndexGetAttrHeld \/ Release

HeldSpec == HeldInit /\ [][HeldNext]_vars

(* ------------------------------- ceilings ----------------------------- *)

\* heap_formtuple called for a descriptor at or around a ceiling.
HeapFormWide ==
    /\ ret = Idle
    /\ \E n \in SparseNulls(desc) :
         /\ value' = SmallValues(desc)
         /\ nulls' = n
         /\ htup' = heap_formtuple(desc, value', n)
         /\ ret' = [op |-> "heap_formtuple"]
    /\ UNCHANGED <<copyVars, gistVars, desc, attcacheoff, iattcacheoff, itup>>

\* index_formtuple called for a descriptor at or around a ceiling.
IndexFormWide ==
    /\ ret = Idle
    /\ \E n \in SparseNulls(desc) :
         /\ value' = SmallValues(desc)
         /\ nulls' = n
         /\ itup' = index_formtuple(desc, value', n)
         /\ ret' = [op |-> "index_formtuple"]
    /\ UNCHANGED <<copyVars, gistVars, desc, attcacheoff, iattcacheoff, htup>>

CeilingNext == HeapFormWide \/ IndexFormWide \/ Release

CeilingSpec == CeilingInit /\ [][CeilingNext]_vars

\* index_formtuple called with a large variable-length value, the other
\* attribute null or not.
IndexFormBig ==
    /\ ret = Idle
    /\ \E size \in BigVarSizes :
         \E n \in {m \in NullsOf(desc) : \A i \in 1..Len(desc) :
                                            desc[i].attlen = -1 => m[i] = " "} :
            /\ value' = [i \in 1..Len(desc) |->
                            IF desc[i].attlen = -1 THEN BigDatum(size)
                            ELSE FixedDatum(desc[i], i)]
            /\ nulls' = n
            /\ itup' = index_formtuple(desc, value', n)
            /\ ret' = [op |-> "index_formtuple"]
    /\ UNCHANGED <<copyVars, gistVars, desc, attcacheoff, iattcacheoff, htup>>

BigNext == IndexFormBig \/ Release

BigSpec == BigInit /\ [][BigNext]_vars

(* -------------------------------- copies ------------------------------ *)

\* A null pointer where a tuple is expected.
NULL == << >>

\* Offsets of the fields of HeapTupleData.
HeapTupleData ==
    [t_len |-> 0, t_oid |-> 4, t_cmin |-> 8, t_cmax |-> 12, t_xmin |-> 16,
     t_xmax |-> 20, t_ctid |-> 24, t_natts |-> 30, t_infomask |-> 32,
     t_hoff |-> 34, t_bits |-> 35]

\* The buffer of a row tuple: header fields, bitmap, zero bytes up to
\* t_hoff, data.
HeapTupleBytes(tup) ==
    LET head == ToBytes(tup.t_len, 4)
                \o ToBytes(tup.stamp.t_oid, 4)
                \o ToBytes(tup.stamp.t_cmin, 4) \o ToBytes(tup.stamp.t_cmax, 4)
                \o ToBytes(tup.stamp.t_xmin, 4) \o ToBytes(tup.stamp.t_xmax, 4)
                \o PadTo(ToBytes(tup.stamp.t_ctid, 4), 6)
                \o ToBytes(tup.t_natts, 2) \o ToBytes(tup.t_infomask, 2)
                \o ToBytes(tup.t_hoff, 1)
    IN PadTo(head \o tup.t_bits, tup.t_hoff) \o tup.data

\* The row tuple that the accessors see in a buffer.
HeapTupleAt(buf) ==
    LET f == HeapTupleData
        natts == FromBytes(BytesAt(buf, f.t_natts, 2))
        infomask == FromBytes(BytesAt(buf, f.t_infomask, 2))
        hoff == ByteAt(buf, f.t_hoff)
    IN [err |-> FALSE,
        t_len |-> Field(buf, f.t_len),
        stamp |-> [t_oid |-> Field(buf, f.t_oid),
                   t_cmin |-> Field(buf, f.t_cmin), t_cmax |-> Field(buf, f.t_cmax),
                   t_xmin |-> Field(buf, f.t_xmin), t_xmax |-> Field(buf, f.t_xmax),
                   t_ctid |-> Field(buf, f.t_ctid)],
        t_natts |-> natts,
        t_hoff |-> hoff,
        t_infomask |-> infomask,
        t_bits |-> IF BitAnd(infomask, HEAP_HASNULL) # 0
                   THEN BytesAt(buf, f.t_bits, BITMAPLEN(natts)) ELSE << >>,
        data |-> SubSeq(buf, hoff + 1, Len(buf)),
        overflow |-> FALSE]

\* The largest tuple heap_copytuple accepts.
MAXTUPLEN == 8192

\* heap_copytuple copying the header only (t_hoff bytes).
heap_copytupleHeaderOnly(tuple) ==
    IF tuple = NULL THEN [err |-> FALSE, newTuple |-> NULL, wild |-> FALSE]
    ELSE LET t_len == ByteAt(tuple, HeapTupleData.t_hoff)
         IN IF t_len > MAXTUPLEN THEN [err |-> TRUE, newTuple |-> NULL, wild |-> FALSE]
            ELSE [err |-> FALSE,
                  newTuple |-> BytesAt(tuple, 0, t_len),
                  wild |-> t_len > Len(tuple)]

\* heap_copytuple(tuple): newTuple is the buffer allocated, wild says that
\* the copy read past the end of the source.
heap_copytuple(tuple) ==
    IF tuple = NULL THEN [err |-> FALSE, newTuple |-> NULL, wild |-> FALSE]
    ELSE LET t_len == Field(tuple, HeapTupleData.t_len)
         IN IF t_len > MAXTUPLEN THEN [err |-> TRUE, newTuple |-> NULL, wild |-> FALSE]
            ELSE [err |-> FALSE,
                  newTuple |-> BytesAt(tuple, 0, t_len),
                  wild |-> t_len > Len(tuple)]

\* The buffer of an index tuple: item pointer, t_info, bitmap, zero bytes
\* up to the data offset, data.
IndexTupleBytes(tup) ==
    PadTo(Zeros(6) \o ToBytes(tup.t_info, 2) \o tup.bits,
          IndexInfoFindDataOffset(tup.t_info)) \o tup.data

\* The index tuple that the accessors see in a buffer.
IndexTupleAt(buf) ==
    LET t_info == FromBytes(BytesAt(buf, 6, 2))
    IN [err |-> FALSE,
        t_info |-> t_info,
        bits |-> IF BitAnd(t_info, INDEX_NULL_MASK) # 0
                 THEN BytesAt(buf, SizeofIndexTupleData, BITMAPLEN(MaxIndexAttributeNumber))
                 ELSE << >>,
        data |-> SubSeq(buf, IndexInfoFindDataOffset(t_info) + 1, Len(buf)),
        overflow |-> FALSE]

\* IndexTupleSize(source): the low 13 bits of t_info.
IndexTupleSize(source) == BitAnd(FromBytes(BytesAt(source, 6, 2)), 8191)

\* CopyIndexTuple(source, target): target is what *target points to after
\* the call, palloc says that the buffer was allocated by the call,
\* overflow that the copy wrote past the end of the buffer it was given.
CopyIndexTuple(source, target) ==
    LET size == IndexTupleSize(source)
    IN [target |-> BytesAt(source, 0, size) \o SubSeq(target, size + 1, Len(target)),
        palloc |-> target = NULL,
        overflow |-> target # NULL /\ Len(target) < size,
        wild |-> size > Len(source)]

\* Every attribute of a row tuple read on a descriptor whose cached
\* offsets are all unset.
HeapDecodeAll(tup, att) ==
    [i \in 1..Len(att) |->
        IF heap_attisnull(tup, i) = 1 THEN [isnull |-> TRUE]
        ELSE [isnull |-> FALSE, res |-> nocachegetattr(tup, i, att, NoCache(att))]]

\* The buffers CopyIndexTuple is given as *target for a source of size
\* bytes: none, one of that size, a larger one.
Targets(size) == {NULL, [k \in 1..size |-> 255], [k \in 1..(size + 8) |-> 255]}

\* heap_copytuple called for the row tuple formed last, or for no tuple.
HeapCopyTuple ==
    /\ ret.op = "heap_formtuple"
    /\ ~htup.err
    /\ \E tuple \in {HeapTupleBytes(htup), NULL} :
         ret' = [op |-> "heap_copytuple", tuple |-> tuple,
                 res |-> heap_copytuple(tuple)]
    /\ UNCHANGED <<copyVars, gistVars, desc, attcacheoff, iattcacheoff, value, nulls, htup, itup>>

\* CopyIndexTuple called for the index tuple formed last.
IndexCopyTuple ==
    /\ ret.op = "index_formtuple"
    /\ ~itup.err
    /\ \E target \in Targets(IndexTupleSize(IndexTupleBytes(itup))) :
         ret' = [op |-> "CopyIndexTuple", source |-> IndexTupleBytes(itup),
                 before |-> target,
                 res |-> CopyIndexTuple(IndexTupleBytes(itup), target)]
    /\ UNCHANGED <<copyVars, gistVars, desc, attcacheoff, iattcacheoff, value, nulls, htup, itup>>

(* ------------------------------- rebuild ------------------------------ *)

\* heap_getattr(tup, attnum, att, &isnull) for attnum >= 1: the null test,
\* then the cached offset or nocachegetattr.
heap_getattr(tup, attnum, att, cache) ==
    IF heap_attisnull(tup, attnum) = 1
    THEN [isnull |-> TRUE, val |-> 0, cache |-> cache, err |-> FALSE, wild |-> FALSE]
    ELSE LET r == nocachegetattr(tup, attnum, att, cache)
         IN [isnull |-> FALSE, val |-> r.val, cache |-> r.cache, err |-> r.err,
             wild |-> r.wild]

\* ModifyStep taking every selector other than ' ' as 'r'.
ModifyStepLenient(tuple, att, replValue, replNull, repl, attoff, acc) ==
    IF repl[attoff + 1] = " "
    THEN LET g == heap_getattr(tuple, attoff + 1, att, acc.cache)
         IN [value |-> Append(acc.value, g.val),
             nulls |-> Append(acc.nulls, IF g.isnull THEN "n" ELSE " "),
             cache |-> g.cache, err |-> g.err, wild |-> acc.wild \/ g.wild]
    ELSE [acc EXCEPT !.value = Append(@, replValue[attoff + 1]),
                     !.nulls = Append(@, replNull[attoff + 1])]

\* ModifyStep reading the original attribute under selector 'r' and taking
\* the replacement under ' '.
ModifyStepSwapped(tuple, att, replValue, replNull, repl, attoff, acc) ==
    IF repl[attoff + 1] = "r"
    THEN LET g == heap_getattr(tuple, attoff + 1, att, acc.cache)
         IN [value |-> Append(acc.value, g.val),
             nulls |-> Append(acc.nulls, IF g.isnull THEN "n" ELSE " "),
             cache |-> g.cache, err |-> g.err, wild |-> acc.wild \/ g.wild]
    ELSE IF repl[attoff + 1] # " " THEN [acc EXCEPT !.err = TRUE]
    ELSE [acc EXCEPT !.value = Append(@, replValue[attoff + 1]),
                     !.nulls = Append(@, replNull[attoff + 1])]

\* One iteration of the loop of heap_modifytuple that fills value[] and
\* nulls[]; acc holds the arrays so far and the cached offsets.
ModifyStep(tuple, att, replValue, replNull, repl, attoff, acc) ==
    IF repl[attoff + 1] = " "
    THEN LET g == heap_getattr(tuple, attoff + 1, att, acc.cache)
         IN [value |-> Append(acc.value, g.val),
             nulls |-> Append(acc.nulls, IF g.isnull THEN "n" ELSE " "),
             cache |-> g.cache, err |-> g.err, wild |-> acc.wild \/ g.wild]
    ELSE IF repl[attoff + 1] # "r" THEN [acc EXCEPT !.err = TRUE]
    ELSE [acc EXCEPT !.value = Append(@, replValue[attoff + 1]),
                     !.nulls = Append(@, replNull[attoff + 1])]

RECURSIVE ModifyValues(_, _, _, _, _, _, _)
\* The loop of heap_modifytuple from attoff on; an error ends it.
ModifyValues(tuple, att, replValue, replNull, repl, attoff, acc) ==
    IF attoff >= Len(att) \/ acc.err THEN acc
    ELSE ModifyValues(tuple, att, replValue, replNull, repl, attoff + 1,
                      ModifyStep(tuple, att, replValue, replNull, repl, attoff, acc))

\* The buffer with bytes stored from offset off on.
Store(buf, off, bytes) ==
    SubSeq(buf, 1, off) \o bytes \o SubSeq(buf, off + Len(bytes) + 1, Len(buf))

\* The end of heap_modifytuple: the header of the old tuple from t_oid up
\* to t_hoff is copied over the new tuple's, then t_infomask is set from
\* the uint8 it was saved in and t_natts from numberOfAttributes.
CopyHeader(newTuple, old, numberOfAttributes) ==
    HeapTupleAt(
        Store(Store(Store(HeapTupleBytes(newTuple), HeapTupleData.t_oid,
                          BytesAt(HeapTupleBytes(old), HeapTupleData.t_oid,
                                  HeapTupleData.t_hoff - HeapTupleData.t_oid)),
                    HeapTupleData.t_infomask, ToBytes(newTuple.t_infomask % 256, 2)),
              HeapTupleData.t_natts, ToBytes(numberOfAttributes, 2)))

\* heap_modifytuple after heap_formtuple returned newTuple for the merged
\* arrays of m.
ModifyFormed(old, att, m, newTuple) ==
    IF m.err \/ newTuple.err THEN [err |-> TRUE, cache |-> m.cache, wild |-> m.wild]
    ELSE [err |-> FALSE, cache |-> m.cache, wild |-> m.wild,
          formed |-> newTuple,
          newTuple |-> [CopyHeader(newTuple, old, Len(att))
                          EXCEPT !.overflow = newTuple.overflow]]

\* heap_modifytuple after its loop left the merged arrays in m.
ModifyMerged(old, att, m) ==
    IF m.err THEN [err |-> TRUE, cache |-> m.cache, wild |-> m.wild]
    ELSE ModifyFormed(old, att, m, heap_formtuple(att, m.value, m.nulls))

\* heap_modifytuple reading the attributes it keeps from old.
ModifyOf(old, wild, att, cache, replValue, replNull, repl) ==
    ModifyMerged(old, att,
        ModifyValues(old, att, replValue, replNull, repl, 0,
                     [value |-> << >>, nulls |-> << >>, cache |-> cache,
                      err |-> FALSE, wild |-> wild]))

\* heap_modifytuple for a tuple in a valid buffer: it reads the copy.
ModifyCopied(copy, att, cache, replValue, replNull, repl) ==
    IF copy.err THEN [err |-> TRUE, cache |-> cache, wild |-> copy.wild]
    ELSE ModifyOf(HeapTupleAt(copy.newTuple), copy.wild, att, cache,
                  replValue, replNull, repl)

\* heap_modifytuple(tuple, buffer, relation, replValue, replNull, repl):
\* buffer says that the tuple lies in a valid buffer, att and cache are
\* the relation's tuple descriptor.
heap_modifytuple(tuple, buffer, att, cache, replValue, replNull, repl) ==
    IF buffer
    THEN ModifyCopied(heap_copytuple(HeapTupleBytes(tuple)), att, cache,
                      replValue, replNull, repl)
    ELSE ModifyOf(tuple, FALSE, att, cache, replValue, replNull, repl)

\* The header fields a stored tuple carries.
Stamp == [t_oid |-> 17001, t_cmin |-> 3, t_cmax |-> 5, t_xmin |-> 701, t_xmax |-> 709,
          t_ctid |-> 2049]

\* The selector values: keep, replace, and one that is neither.
Selectors == {" ", "r", "x"}

\* The replacement datum of attribute i: not the one ValuesOf gives it.
ReplDatum(a, i) ==
    IF a.attlen # -1 THEN FixedDatum(a, i + 8) ELSE VarDatum(i + 8, 6)

\* heap_modifytuple called for the row tuple formed last, stamped as a
\* stored tuple is, with any selector array and any replacement nulls.
HeapModifyTuple ==
    /\ ret.op = "heap_formtuple"
    /\ ~htup.err
    /\ \E repl \in [1..Len(desc) -> Selectors], buffer \in BOOLEAN :
         \E replNull \in {rn \in NullsOf(desc) : \A i \in 1..Len(desc) : repl[i] # "r" => rn[i] = " "} :
            ret' = [op |-> "heap_modifytuple",
                    tuple |-> [htup EXCEPT !.stamp = Stamp],
                    repl |-> repl,
                    replValue |-> [i \in 1..Len(desc) |-> ReplDatum(desc[i], i)],
                    replNull |-> replNull,
                    res |-> heap_modifytuple([htup EXCEPT !.stamp = Stamp], buffer, desc,
                                             attcacheoff,
                                             [i \in 1..Len(desc) |-> ReplDatum(desc[i], i)],
                                             replNull, repl)]
    /\ attcacheoff' = ret'.res.cache
    /\ UNCHANGED <<copyVars, gistVars, desc, iattcacheoff, value, nulls, htup, itup>>

\* Tuples formed, rebuilt and released.
ModifyNext == HeapFormTuple \/ HeapModifyTuple \/ Release

ModifySpec == ModInit /\ [][ModifyNext]_vars

\* Tuples formed, copied and released.
CopyNext ==
    HeapFormTuple \/ IndexFormTuple \/ HeapCopyTuple \/ IndexCopyTuple \/ Release

CopySpec == HeldInit /\ [][CopyNext]_vars

(* --------------------------- length classes --------------------------- *)

\* Declared lengths of every class: variable (-1), 1, 2, 4, longer than 4,
\* and the ones no routine has a case for: 0, 3 and negative ones.
LenClasses == {-3, -2, -1, 0, 1, 2, 3, 4, 5, 8}

LenKinds ==
    { [attlen |-> l, attalign |-> IF l = 8 THEN "d" ELSE "i",
       attbyval |-> (l \in {1, 2, 4})] : l \in LenClasses }

LenDescriptors == UNION { [1..n -> LenKinds] : n \in 1..MaxLenAtts }

LenInit == InitWith(LenDescriptors)

\* The descriptor a tuple was formed under before an entry of d was
\* damaged: a 4-byte attribute in the place of each one whose length no
\* routine has a case for.
FormedUnder(d) ==
    [i \in 1..Len(d) |->
        IF d[i].attlen \in {-1, 1, 2, 4} \/ d[i].attlen > 4 THEN d[i]
        ELSE [attlen |-> 4, attalign |-> "i", attbyval |-> TRUE]]

\* The value[] array for a descriptor of any lengths.
LenValues(d) ==
    [i \in 1..Len(d) |->
        IF d[i].attlen = -1 THEN VarDatum(i, 5)
        ELSE IF d[i].attbyval THEN FixedDatum(d[i], i)
        ELSE [k \in 1..8 |-> Mark(i, k)]]

\* How a call of DataFill ends. A memmove with a negative length is
\* undefined: the process is killed by the copy or the copy runs over the
\* memory behind the tuple.
FillOutcomes(df) ==
    IF df.wild THEN {"killed", "overrun"}
    ELSE IF df.err THEN {"raised"} ELSE {"filled"}

\* ComputeDataSize and DataFill called on the arrays of a tuple, as
\* heap_formtuple and index_formtuple call them.
LenBuild ==
    /\ ret = Idle
    /\ \E n \in NullsOf(desc) :
         /\ value' = LenValues(desc)
         /\ nulls' = n
         /\ \E o \in FillOutcomes(DataFill(desc, value', n, HasNull(n))) :
              ret' = [op |-> "ComputeDataSize",
                      size |-> ComputeDataSize(desc, value', n),
                      fill |-> o]
    /\ UNCHANGED <<copyVars, gistVars, desc, attcacheoff, iattcacheoff, htup, itup>>

\* nocachegetattr called with the descriptor for a non-null attribute of a
\* row tuple formed under FormedUnder(desc).
LenHeapGetAttr ==
    /\ ret = Idle
    /\ \E n \in NullsOf(desc) :
         /\ value' = LenValues(FormedUnder(desc))
         /\ nulls' = n
         /\ htup' = heap_formtuple(FormedUnder(desc), value', n)
         /\ \E i \in NonNull(n) :
              ret' = [op |-> "nocachegetattr", attnum |-> i,
                      before |-> attcacheoff,
                      res |-> nocachegetattr(htup', i, desc, attcacheoff)]
         /\ attcacheoff' = ret'.res.cache
    /\ UNCHANGED <<copyVars, gistVars, desc, iattcacheoff, itup>>

\* nocache_index_getattr called the same way on an index tuple.
LenIndexGetAttr ==
    /\ ret = Idle
    /\ \E n \in NullsOf(desc) :
         /\ value' = LenValues(FormedUnder(desc))
         /\ nulls' = n
         /\ itup' = index_formtuple(FormedUnder(desc), value', n)
         /\ \E i \in NonNull(n) :
              ret' = [op |-> "nocache_index_getattr", attnum |-> i,
                      before |-> iattcacheoff,
                      res |-> nocache_index_getattr(itup', i, desc, iattcacheoff)]
         /\ iattcacheoff' = ret'.res.cache
    /\ UNCHANGED <<copyVars, gistVars, desc, attcacheoff, htup>>

\* The caller is done with the size.
LenRelease ==
    /\ ret.op = "ComputeDataSize"
    /\ ret' = Idle
    /\ value' = << >>
    /\ nulls' = << >>
    /\ UNCHANGED <<copyVars, gistVars, desc, attcacheoff, iattcacheoff, htup, itup>>

\* The four routines called on descriptors of any declared lengths.
LenNext == LenBuild \/ LenHeapGetAttr \/ LenIndexGetAttr \/ LenRelease \/ Release

LenSpec == LenInit /\ [][LenNext]_vars

(* -------------------------- system attributes ------------------------- *)

\* sizeof of a header field: the distance to the field that follows it.
SizeofField(f) ==
    CASE f = "t_oid" -> HeapTupleData.t_cmin - HeapTupleData.t_oid
      [] f = "t_cmin" -> HeapTupleData.t_cmax - HeapTupleData.t_cmin
      [] f = "t_cmax" -> HeapTupleData.t_xmin - HeapTupleData.t_cmax
      [] f = "t_xmin" -> HeapTupleData.t_xmax - HeapTupleData.t_xmin
      [] f = "t_xmax" -> HeapTupleData.t_ctid - HeapTupleData.t_xmax
      [] f = "t_ctid" -> HeapTupleData.t_natts - HeapTupleData.t_ctid

\* heap_sysattrlen(attno).
heap_sysattrlen(attno) ==
    CASE attno = SelfItemPointerAttributeNumber -> SizeofField("t_ctid")
      [] attno = ObjectIdAttributeNumber -> SizeofField("t_oid")
      [] attno = MinTransactionIdAttributeNumber -> SizeofField("t_xmin")
      [] attno = MinCommandIdAttributeNumber -> SizeofField("t_cmin")
      [] attno = MaxTransactionIdAttributeNumber -> SizeofField("t_xmax")
      [] attno = MaxCommandIdAttributeNumber -> SizeofField("t_cmax")
      [] OTHER -> Elog

\* heap_sysattrbyval reporting every system attribute as by-value.
heap_sysattrbyvalAll(attno) ==
    [byval |-> TRUE, err |-> attno \notin SystemAttributeNumbers]

\* heap_sysattrbyval(attno): byval, and whether elog(ERROR) was raised.
heap_sysattrbyval(attno) ==
    CASE attno = SelfItemPointerAttributeNumber -> [byval |-> FALSE, err |-> FALSE]
      [] attno = ObjectIdAttributeNumber -> [byval |-> TRUE, err |-> FALSE]
      [] attno = MinTransactionIdAttributeNumber -> [byval |-> TRUE, err |-> FALSE]
      [] attno = MinCommandIdAttributeNumber -> [byval |-> TRUE, err |-> FALSE]
      [] attno = MaxTransactionIdAttributeNumber -> [byval |-> TRUE, err |-> FALSE]
      [] attno = MaxCommandIdAttributeNumber -> [byval |-> TRUE, err |-> FALSE]
      [] OTHER -> [byval |-> TRUE, err |-> TRUE]

\* A Datum that is the address of the header field at offset off.
PointerTo(off) == [err |-> FALSE, pointer |-> TRUE, datum |-> off]

\* A Datum that is the value v.
ValueOf(v) == [err |-> FALSE, pointer |-> FALSE, datum |-> v]

\* heap_getsysattr(tup, b, attnum); the buffer is not looked at.
heap_getsysattr(tup, attnum) ==
    CASE attnum = SelfItemPointerAttributeNumber -> PointerTo(HeapTupleData.t_ctid)
      [] attnum = ObjectIdAttributeNumber -> ValueOf(tup.stamp.t_oid)
      [] attnum = MinTransactionIdAttributeNumber -> ValueOf(tup.stamp.t_xmin)
      [] attnum = MinCommandIdAttributeNumber -> ValueOf(tup.stamp.t_cmin)
      [] attnum = MaxTransactionIdAttributeNumber -> ValueOf(tup.stamp.t_xmax)
      [] attnum = MaxCommandIdAttributeNumber -> ValueOf(tup.stamp.t_cmax)
      [] OTHER -> [err |-> TRUE, pointer |-> TRUE, datum |-> 0]

SysDescriptors == UNION { [1..n -> WalkKinds] : n \in 1..MaxSysAtts }

SysInit == InitWith(SysDescriptors)

\* The attribute numbers asked for: the system attributes, the attributes
\* of the tuple and numbers on both sides of them.
AttNumbers == (MaxCommandIdAttributeNumber - Beyond)..(Len(desc) + Beyond)

\* heap_attisnull called on the row tuple just formed.
HeapAttIsNull ==
    /\ ret.op = "heap_formtuple"
    /\ ~htup.err
    /\ \E attnum \in AttNumbers :
         ret' = [op |-> "heap_attisnull", attnum |-> attnum,
                 res |-> heap_attisnull(htup, attnum)]
    /\ UNCHANGED <<copyVars, gistVars, desc, attcacheoff, iattcacheoff, value, nulls, htup, itup>>

\* The three system attribute routines called with one attribute number
\* on the row tuple just formed, after the caller stamped its header.
HeapGetSysAttr ==
    /\ ret.op = "heap_formtuple"
    /\ ~htup.err
    /\ htup' = [htup EXCEPT !.stamp = Stamp]
    /\ \E attnum \in AttNumbers :
         ret' = [op |-> "heap_getsysattr", attnum |-> attnum,
                 len |-> heap_sysattrlen(attnum),
                 byval |-> heap_sysattrbyval(attnum),
                 res |-> heap_getsysattr(htup', attnum)]
    /\ UNCHANGED <<copyVars, gistVars, desc, attcacheoff, iattcacheoff, value, nulls, itup>>

\* Row tuples formed and asked for nulls and system attributes.
SysNext == HeapFormTuple \/ HeapAttIsNull \/ HeapGetSysAttr \/ Release

SysSpec == SysInit /\ [][SysNext]_vars

(* ------------------------- interleaved accessors ---------------------- *)

\* The calls in progress: two callers of nocachegetattr on one descriptor.
Callers == {1, 2}

\* A caller that is not inside nocachegetattr.
NotCalling ==
    [pc |-> "idle", tup |-> NoTuple, attnum |-> 0, j |-> 0, i |-> 0, off |-> 0,
     usecache |-> FALSE, oob |-> FALSE, val |-> << >>]

\* The callers: ret holds them once the first call has begun.
Proc == IF ret.op = "race" THEN ret.proc ELSE [p \in Callers |-> NotCalling]

\* Caller p becomes q and the cached offsets become cache.
Becomes(p, q, cache) ==
    /\ ret' = [op |-> "race", proc |-> [Proc EXCEPT ![p] = q]]
    /\ attcacheoff' = cache
    /\ UNCHANGED <<copyVars, gistVars, desc, iattcacheoff, value, nulls, htup, itup>>

\* The offset after attribute a that starts at off: the second switch of
\* the slow loop.
Advance(a, data, off) ==
    IF a.attlen = -1 THEN off + VARSIZE(data, off) ELSE off + a.attlen

\* Caller p enters nocachegetattr with a tuple formed by heap_formtuple
\* and the number of one of its non-null attributes, and runs up to its
\* first look at a cached offset: `slow' is decided from the bitmap.
RaceCall(p) ==
    /\ ret.op \in {"none", "race"}
    /\ Proc[p].pc = "idle"
    /\ \E n \in NullsOf(desc) : \E v \in ValuesOf(desc, n) : \E a \in NonNull(n) :
         LET tup == heap_formtuple(desc, v, n)
             slow == ~HeapTupleNoNulls(tup) /\ HeapNullBefore(tup, a - 1)
         IN Becomes(p, [NotCalling EXCEPT !.pc = IF slow THEN "walk" ELSE "start",
                                          !.tup = tup, !.attnum = a - 1,
                                          !.usecache = TRUE],
                    attcacheoff)

\* `if (att[attnum]->attcacheoff > 0)' and, when it is not, the tests that
\* follow it, which read no cached offset.
RaceStart(p) ==
    LET q == Proc[p]
        a == desc[q.attnum + 1]
    IN /\ q.pc = "start"
       /\ Becomes(p,
            IF attcacheoff[q.attnum + 1] > 0 THEN [q EXCEPT !.pc = "hit"]
            ELSE IF q.attnum = 0
                 THEN [q EXCEPT !.pc = "done", !.val = fetchatt(a, q.tup.data, 0)]
            ELSE IF ~HeapTupleAllFixed(q.tup) /\ VarlenaBefore(desc, q.attnum)
                 THEN [q EXCEPT !.pc = "walk"]
            ELSE [q EXCEPT !.pc = "zero"],
            attcacheoff)

\* `return fetchatt(&(att[attnum]), tp + att[attnum]->attcacheoff)' of
\* either branch: the cached offset is read again.
RaceFetch(p) ==
    LET q == Proc[p]
        a == desc[q.attnum + 1]
    IN /\ q.pc \in {"hit", "fetch"}
       /\ Becomes(p, [q EXCEPT !.pc = "done",
                               !.val = fetchatt(a, q.tup.data,
                                                attcacheoff[q.attnum + 1])],
                  attcacheoff)

\* `att[0]->attcacheoff = 0' and `j = 1'.
RaceZero(p) ==
    LET q == Proc[p]
    IN /\ q.pc = "zero"
       /\ Becomes(p, [q EXCEPT !.pc = "scan", !.j = 1],
                  [attcacheoff EXCEPT ![1] = 0])

\* One test of `while (att[j]->attcacheoff > 0) j++'. At j = natts the
\* entry read is behind the descriptor: what is found there may end the
\* loop or not.
RaceScan(p) ==
    LET q == Proc[p]
    IN /\ q.pc = "scan"
       /\ IF q.j >= Len(desc)
          THEN \E more \in BOOLEAN :
                 Becomes(p, [q EXCEPT !.oob = TRUE,
                                      !.pc = "base",
                                      !.j = IF more THEN q.j + 1 ELSE q.j],
                         attcacheoff)
          ELSE Becomes(p, IF attcacheoff[q.j + 1] > 0 THEN [q EXCEPT !.j = q.j + 1]
                          ELSE [q EXCEPT !.pc = "base"],
                       attcacheoff)

\* `off = att[j - 1]->attcacheoff + att[j - 1]->attlen'.
RaceBase(p) ==
    LET q == Proc[p]
    IN /\ q.pc = "base"
       /\ Becomes(p,
            IF q.j - 1 >= Len(desc) THEN [q EXCEPT !.pc = "fill", !.oob = TRUE]
            ELSE [q EXCEPT !.pc = "fill",
                           !.off = attcacheoff[q.j] + desc[q.j].attlen],
            attcacheoff)

\* One iteration of `for (; j < attnum + 1; j++)', which stores one
\* cached offset, or the end of the loop.
RaceFill(p) ==
    LET q == Proc[p]
        a == desc[q.j + 1]
        o == AttAlign(a, q.off)
    IN /\ q.pc = "fill"
       /\ IF q.j < q.attnum + 1
          THEN Becomes(p, [q EXCEPT !.off = o + a.attlen, !.j = q.j + 1],
                       [attcacheoff EXCEPT ![q.j + 1] = o])
          ELSE Becomes(p, [q EXCEPT !.pc = "fetch"], attcacheoff)

\* The top of an iteration of the slow loop up to its test
\* `usecache && att[i]->attcacheoff > 0', or the code behind the loop.
RaceWalk(p) ==
    LET q == Proc[p]
        a == desc[q.i + 1]
        o == AttAlign(a, q.off)
        last == desc[q.attnum + 1]
    IN /\ q.pc = "walk"
       /\ Becomes(p,
            IF q.i >= q.attnum
            THEN [q EXCEPT !.pc = "done",
                           !.val = fetchatt(last, q.tup.data, AttAlign(last, q.off))]
            ELSE IF ~HeapTupleNoNulls(q.tup) /\ att_isnull(q.i, q.tup.t_bits)
            THEN [q EXCEPT !.usecache = FALSE, !.i = q.i + 1]
            ELSE IF ~q.usecache
            THEN [q EXCEPT !.off = Advance(a, q.tup.data, o), !.i = q.i + 1]
            ELSE IF attcacheoff[q.i + 1] > 0
            THEN [q EXCEPT !.pc = "take"]
            ELSE [q EXCEPT !.pc = "store", !.off = o],
            attcacheoff)

\* `off = att[i]->attcacheoff' and the rest of the iteration.
RaceTake(p) ==
    LET q == Proc[p]
        a == desc[q.i + 1]
    IN /\ q.pc = "take"
       /\ Becomes(p, [q EXCEPT !.pc = "walk",
                               !.off = Advance(a, q.tup.data, attcacheoff[q.i + 1]),
                               !.usecache = a.attlen # -1,
                               !.i = q.i + 1],
                  attcacheoff)

\* `att[i]->attcacheoff = off' and the rest of the iteration.
RaceStore(p) ==
    LET q == Proc[p]
        a == desc[q.i + 1]
    IN /\ q.pc = "store"
       /\ Becomes(p, [q EXCEPT !.pc = "walk",
                               !.off = Advance(a, q.tup.data, q.off),
                               !.usecache = a.attlen # -1,
                               !.i = q.i + 1],
                  [attcacheoff EXCEPT ![q.i + 1] = q.off])

\* The caller has taken the value returned.
RaceReturn(p) ==
    /\ Proc[p].pc = "done"
    /\ Becomes(p, NotCalling, attcacheoff)

RaceDescriptors == UNION { [1..n -> WalkKinds] : n \in 1..MaxRaceAtts }

RaceInit == InitWith(RaceDescriptors)

\* Two calls of nocachegetattr on one descriptor, interleaved between any
\* two accesses to a cached offset.
RaceNext ==
    \E p \in Callers :
        \/ RaceCall(p) \/ RaceStart(p) \/ RaceFetch(p) \/ RaceZero(p)
        \/ RaceScan(p) \/ RaceBase(p) \/ RaceFill(p) \/ RaceWalk(p)
        \/ RaceTake(p) \/ RaceStore(p) \/ RaceReturn(p)

RaceSpec == RaceInit /\ [][RaceNext]_vars

(* ------------------------- scan of cached offsets --------------------- *)

ScanDescriptors == UNION { [1..n -> WalkKinds] : n \in 1..MaxScanAtts }

ScanInit == InitWith(ScanDescriptors)

\* Calls of nocachegetattr and of nocache_index_getattr, one after the
\* other, each on its own descriptor.
ScanNext == HeapGetAttr \/ IndexGetAttr \/ Release

ScanSpec == ScanInit /\ [][ScanNext]_vars

(* --------------------------- nulls[] contents ------------------------- *)

\* The bytes a nulls[] array may hold: ' ', 'n' and another one.
NullBytes == {" ", "n", "x"}

AnyNulls(d) == [1..Len(d) -> NullBytes]

\* A call of heap_formtuple with any bytes in nulls[].
HeapFormTupleAny ==
    /\ ret = Idle
    /\ \E n \in AnyNulls(desc) : \E v \in ValuesOf(desc, n) :
         /\ value' = v
         /\ nulls' = n
         /\ htup' = heap_formtuple(desc, v, n)
         /\ ret' = [op |-> "heap_formtuple",
                    size |-> ComputeDataSize(desc, v, n),
                    filled |-> Len(DataFill(desc, v, n, HasNull(n)).data),
                    bits |-> DataFill(desc, v, n, HasNull(n)).bits]
    /\ UNCHANGED <<copyVars, gistVars, desc, attcacheoff, iattcacheoff, itup>>

\* A call of heap_modifytuple on the tuple just formed with any bytes in
\* replNull[].
HeapModifyTupleAny ==
    /\ ret.op = "heap_formtuple"
    /\ ~htup.err
    /\ ~htup.overflow
    /\ \E repl \in [1..Len(desc) -> {" ", "r"}], buffer \in BOOLEAN :
         \E replNull \in AnyNulls(desc) :
            ret' = [op |-> "heap_modifytuple",
                    tuple |-> [htup EXCEPT !.stamp = Stamp],
                    repl |-> repl,
                    replValue |-> [i \in 1..Len(desc) |-> ReplDatum(desc[i], i)],
                    replNull |-> replNull,
                    res |-> heap_modifytuple([htup EXCEPT !.stamp = Stamp], buffer, desc,
                                             attcacheoff,
                                             [i \in 1..Len(desc) |-> ReplDatum(desc[i], i)],
                                             replNull, repl)]
    /\ attcacheoff' = ret'.res.cache
    /\ UNCHANGED <<copyVars, gistVars, desc, iattcacheoff, value, nulls, htup, itup>>

\* Row tuples formed and rebuilt from arrays with any null bytes.
NullNext == HeapFormTupleAny \/ HeapModifyTupleAny \/ Release

NullSpec == ModInit /\ [][NullNext]_vars

(* --------------------------- copy.c: input ---------------------------- *)

\* End of input as getc and pq_getbyte report it.
EOF == -1

\* The static variables as one record, with err: elog(ERROR) was raised.
World ==
    [copy_dest |-> copy_dest, copy_file |-> copy_file, frontend |-> frontend,
     copy_msgbuf |-> copy_msgbuf, fe_eof |-> fe_eof, eol_type |-> eol_type,
     copy_lineno |-> copy_lineno, attribute_buf |-> attribute_buf, err |-> FALSE]

\* The static variables become those of w.
Install(w) ==
    /\ copy_dest' = w.copy_dest
    /\ copy_file' = w.copy_file
    /\ frontend' = w.frontend
    /\ copy_msgbuf' = w.copy_msgbuf
    /\ fe_eof' = w.fe_eof
    /\ eol_type' = w.eol_type
    /\ copy_lineno' = w.copy_lineno
    /\ attribute_buf' = w.attribute_buf

\* getc(f): the byte pushed back if there is one, else the next byte of
\* the stream.
getc(f) ==
    IF f.pushed # << >> THEN [c |-> f.pushed[1], f |-> [f EXCEPT !.pushed = << >>]]
    ELSE IF f.pos < Len(f.data)
         THEN [c |-> f.data[f.pos + 1], f |-> [f EXCEPT !.pos = @ + 1]]
    ELSE [c |-> EOF, f |-> [f EXCEPT !.eof = TRUE]]

\* ungetc(c, f).
ungetc(c, f) == [f EXCEPT !.pushed = <<c>>, !.eof = FALSE]

\* fread(databuf, datasize, 1, f): the bytes stored in databuf; the EOF
\* indicator is set when the stream ends before datasize bytes.
fread(datasize, f) ==
    LET rest == f.pushed \o SubSeq(f.data, f.pos + 1, Len(f.data))
        n == IF Len(rest) < datasize THEN Len(rest) ELSE datasize
    IN [databuf |-> SubSeq(rest, 1, n),
        f |-> [f EXCEPT !.pushed = << >>,
                        !.pos = @ + n - Len(f.pushed),
                        !.eof = @ \/ Len(rest) < datasize]]

\* pq_getbyte(): the next byte the client sent, or EOF.
pq_getbyte(fe) ==
    IF fe.stream = << >> THEN [c |-> EOF, fe |-> fe]
    ELSE [c |-> Head(fe.stream), fe |-> [fe EXCEPT !.stream = Tail(@)]]

\* pq_peekbyte(): the same byte, left in place.
pq_peekbyte(fe) == IF fe.stream = << >> THEN EOF ELSE Head(fe.stream)

\* pq_getbytes(s, len): len bytes, or EOF when the client sent fewer.
pq_getbytes(fe, len) ==
    IF Len(fe.stream) < len THEN [c |-> EOF, databuf |-> << >>, fe |-> fe]
    ELSE [c |-> 0, databuf |-> SubSeq(fe.stream, 1, len),
          fe |-> [fe EXCEPT !.stream = SubSeq(@, len + 1, Len(@))]]

RECURSIVE ReceiveMessages(_)
\* `while (copy_msgbuf->cursor >= copy_msgbuf->len)' of CopyGetData:
\* pq_getbyte and pq_getmessage load the next message into copy_msgbuf.
\* It ends with unread bytes in copy_msgbuf, with fe_eof set by CopyDone,
\* or with an error.
ReceiveMessages(w) ==
    IF w.copy_msgbuf.cursor < Len(w.copy_msgbuf.data) THEN w
    ELSE IF w.frontend.msgs = << >> THEN [w EXCEPT !.err = TRUE]
    ELSE LET m == Head(w.frontend.msgs)
             w1 == [w EXCEPT !.frontend.msgs = Tail(@),
                             !.copy_msgbuf = [data |-> m.body, cursor |-> 0]]
         IN CASE m.mtype = "d" -> ReceiveMessages(w1)
              [] m.mtype = "c" -> [w1 EXCEPT !.fe_eof = TRUE]
              [] OTHER -> [w1 EXCEPT !.err = TRUE]

RECURSIVE CopyGetDataNewFe(_, _, _)
\* `while (datasize > 0 && !fe_eof)' of CopyGetData. Its last statement is
\* `datasize =- avail', which assigns -avail.
CopyGetDataNewFe(w, databuf, datasize) ==
    IF ~(datasize > 0 /\ ~w.fe_eof) THEN [w |-> w, databuf |-> databuf]
    ELSE LET w1 == ReceiveMessages(w)
             cursor == w1.copy_msgbuf.cursor
             have == Len(w1.copy_msgbuf.data) - cursor
             avail == IF have > datasize THEN datasize ELSE have
         IN IF w1.err \/ w1.fe_eof THEN [w |-> w1, databuf |-> databuf]
            ELSE CopyGetDataNewFe(
                    [w1 EXCEPT !.copy_msgbuf.cursor = cursor + avail],
                    databuf \o SubSeq(w1.copy_msgbuf.data, cursor + 1, cursor + avail),
                    0 - avail)

\* CopyGetData(databuf, datasize): the static variables afterwards and the
\* bytes stored in databuf.
CopyGetData(w, datasize) ==
    CASE w.copy_dest = "COPY_FILE" ->
           LET r == fread(datasize, w.copy_file)
           IN [w |-> [w EXCEPT !.copy_file = r.f, !.fe_eof = @ \/ r.f.eof],
               databuf |-> r.databuf]
      [] w.copy_dest = "COPY_OLD_FE" ->
           LET r == pq_getbytes(w.frontend, datasize)
           IN [w |-> [w EXCEPT !.frontend = r.fe, !.err = (r.c = EOF)],
               databuf |-> r.databuf]
      [] w.copy_dest = "COPY_NEW_FE" -> CopyGetDataNewFe(w, << >>, datasize)

\* The end of CopyGetChar and CopyPeekChar: `if (ch == EOF) fe_eof = true'.
Got(w, ch) == [w |-> IF ch = EOF THEN [w EXCEPT !.fe_eof = TRUE] ELSE w, c |-> ch]

\* The COPY_NEW_FE case of CopyGetChar and CopyPeekChar.
CopyGetByteNewFe(w) ==
    LET r == CopyGetData(w, 1)
    IN Got(r.w, IF r.w.fe_eof \/ r.databuf = << >> THEN EOF ELSE r.databuf[1])

\* CopyGetChar(): the static variables afterwards and the value returned.
CopyGetChar(w) ==
    CASE w.copy_dest = "COPY_FILE" ->
           LET r == getc(w.copy_file)
           IN Got([w EXCEPT !.copy_file = r.f], r.c)
      [] w.copy_dest = "COPY_OLD_FE" ->
           LET r == pq_getbyte(w.frontend)
           IN IF r.c = EOF THEN [w |-> [w EXCEPT !.err = TRUE], c |-> EOF]
              ELSE Got([w EXCEPT !.frontend = r.fe], r.c)
      [] w.copy_dest = "COPY_NEW_FE" -> CopyGetByteNewFe(w)

\* CopyPeekChar().
CopyPeekChar(w) ==
    CASE w.copy_dest = "COPY_FILE" ->
           LET r == getc(w.copy_file)
           IN Got([w EXCEPT !.copy_file = r.f], r.c)
      [] w.copy_dest = "COPY_OLD_FE" ->
           IF pq_peekbyte(w.frontend) = EOF
           THEN [w |-> [w EXCEPT !.err = TRUE], c |-> EOF]
           ELSE Got(w, pq_peekbyte(w.frontend))
      [] w.copy_dest = "COPY_NEW_FE" -> CopyGetByteNewFe(w)

\* CopyDonePeek that leaves the input as CopyPeekChar left it.
CopyDonePeekIdle(w, c, pickup) == w

\* CopyDonePeek(c, pickup).
CopyDonePeek(w, c, pickup) ==
    IF w.fe_eof THEN w
    ELSE CASE w.copy_dest = "COPY_FILE" ->
                IF ~pickup THEN [w EXCEPT !.copy_file = ungetc(c, @)] ELSE w
           [] w.copy_dest = "COPY_OLD_FE" ->
                IF pickup THEN [w EXCEPT !.frontend = pq_getbyte(@).fe] ELSE w
           [] w.copy_dest = "COPY_NEW_FE" ->
                IF ~pickup THEN [w EXCEPT !.copy_msgbuf.cursor = @ - 1] ELSE w

(* ------------------------- copy.c: CopyGetData ------------------------ *)

\* The tuple codec is not in use.
NoTuples ==
    /\ desc = << >>
    /\ attcacheoff = << >>
    /\ iattcacheoff = << >>
    /\ value = << >>
    /\ nulls = << >>
    /\ htup = NoTuple
    /\ itup = NoTuple
    /\ ret = Idle

tupleVars == <<desc, attcacheoff, iattcacheoff, value, nulls, htup, itup>>

RECURSIVE SumOf(_, _)
\* The sum of the first k entries of lens.
SumOf(lens, k) == IF k = 0 THEN 0 ELSE SumOf(lens, k - 1) + lens[k]

\* CopyData messages whose bodies have the lengths lens and hold the
\* bytes 1, 2, 3... in order.
CopyDataMessages(lens) ==
    [i \in 1..Len(lens) |->
        [mtype |-> "d",
         body |-> [k \in 1..lens[i] |-> SumOf(lens, i - 1) + k]]]

\* What may follow them: CopyDone, CopyFail, or nothing when the
\* connection is lost.
Endings ==
    { << >>, <<[mtype |-> "c", body |-> << >>]>>, <<[mtype |-> "f", body |-> <<1>>]>> }

\* What a client sends during COPY IN in the new protocol.
MessageStreams ==
    { CopyDataMessages(lens) \o e :
        lens \in UNION { [1..m -> 0..MaxBody] : m \in 0..MaxMsgs }, e \in Endings }

\* COPY FROM STDIN has begun in the new protocol: ReceiveCopyBegin and
\* the initialization of CopyFrom.
GetDataInit ==
    /\ NoTuples
    /\ NoScans
    /\ copy_dest = "COPY_NEW_FE"
    /\ copy_file = Opened(<< >>)
    /\ \E msgs \in MessageStreams : frontend = Sent(<< >>, msgs)
    /\ copy_msgbuf = makeStringInfo
    /\ fe_eof = FALSE
    /\ eol_type = "EOL_UNKNOWN"
    /\ copy_lineno = 0
    /\ attribute_buf = << >>

\* A call CopyGetData(databuf, datasize); ret keeps the static variables
\* as they were before the call.
CopyGetDataCall ==
    /\ ret = Idle
    /\ \E datasize \in 1..MaxGet :
         LET r == CopyGetData(World, datasize)
         IN /\ Install(r.w)
            /\ ret' = [op |-> "CopyGetData", datasize |-> datasize,
                       databuf |-> r.databuf, err |-> r.w.err, before |-> World]
    /\ UNCHANGED <<tupleVars, gistVars>>

\* The caller has used the bytes and goes on.
CopyTaken ==
    /\ ret.op \in {"CopyGetData"}
    /\ ~ret.err
    /\ ret' = Idle
    /\ UNCHANGED <<tupleVars, copyVars, gistVars>>

GetDataNext == CopyGetDataCall \/ CopyTaken

GetDataSpec == GetDataInit /\ [][GetDataNext]_vars

(* --------------------------- copy.c: text input ----------------------- *)

\* Largest number of bytes of a text COPY input.
MaxText == 5

\* Largest number of columns of the table copied into.
MaxCols == 2

\* Bytes of a CopyData message of a text COPY input.
ChunkLen == 2

\* The character codes copy.c names: '\b', '\t', '\n', '\v', '\f', '\r',
\* '.', '0', '7', 'N', '\\' and the letters b, f, n, r, t, v.
CharBS == 8
CharTab == 9
CharNL == 10
CharVT == 11
CharFF == 12
CharCR == 13
CharDot == 46
Char0 == 48
Char7 == 55
UpperN == 78
CharBackslash == 92
LowerB == 98
LowerF == 102
LowerN == 110
LowerR == 114
LowerT == 116
LowerV == 118

\* An ordinary character, 'a'.
LowerA == 97

ISOCTAL(c) == c >= Char0 /\ c <= Char7

OCTVALUE(c) == c - Char0

\* elog(ERROR, ...) in the state w.
Raise(w) == [w EXCEPT !.err = TRUE]

\* appendStringInfoCharMacro(&attribute_buf, c).
appendStringInfoCharMacro(w, c) == [w EXCEPT !.attribute_buf = Append(@, c)]

\* CopyReadAttribute has ended in w with *result = result.
Ended(w, result) == [w |-> w, result |-> result, c |-> EOF]

\* elog(ERROR, ...) inside CopyReadAttribute.
Elogged(w) == Ended(Raise(w), "NORMAL_ATTR")

\* The loop of CopyReadAttribute goes on to append c.
More(w, c) == [w |-> w, result |-> "", c |-> c]

\* CopyPeekChar has returned p after a carriage return: a newline is
\* picked up, another character is put back.
ReadReturnPeeked(p) ==
    IF p.w.err THEN Elogged(p.w)
    ELSE IF p.c = CharNL
    THEN Ended([CopyDonePeek(p.w, p.c, TRUE) EXCEPT !.eol_type = "EOL_CRNL"],
               "END_OF_LINE")
    ELSE IF p.w.eol_type = "EOL_CRNL" THEN Elogged(p.w)
    ELSE Ended([CopyDonePeek(p.w, p.c, FALSE) EXCEPT !.eol_type = "EOL_CR"],
               "END_OF_LINE")

\* `if (c == '\r')' of CopyReadAttribute.
ReadReturn(w) ==
    IF w.eol_type = "EOL_NL" THEN Elogged(w)
    ELSE IF w.copy_lineno = 1 \/ w.eol_type = "EOL_CRNL"
    THEN ReadReturnPeeked(CopyPeekChar(w))
    ELSE Ended(w, "END_OF_LINE")

\* ReadNewline without its two tests of eol_type.
ReadNewlineAny(w) == Ended([w EXCEPT !.eol_type = "EOL_NL"], "END_OF_LINE")

\* `if (c == '\n')' of CopyReadAttribute.
ReadNewline(w) ==
    IF w.eol_type = "EOL_CRNL" \/ w.eol_type = "EOL_CR" THEN Elogged(w)
    ELSE Ended([w EXCEPT !.eol_type = "EOL_NL"], "END_OF_LINE")

\* The third digit of an octal escape: CopyPeekChar has returned p, val is
\* the value of the two digits read.
OctalThird(p, val) ==
    IF p.w.err THEN Elogged(p.w)
    ELSE IF ISOCTAL(p.c)
    THEN More(CopyDonePeek(p.w, p.c, TRUE), (val * 8 + OCTVALUE(p.c)) % 256)
    ELSE IF p.c = EOF THEN Ended(p.w, "END_OF_FILE")
    ELSE More(CopyDonePeek(p.w, p.c, FALSE), val % 256)

\* The second digit: CopyPeekChar has returned p, val is the value of
\* the first digit.
OctalSecond(p, val) ==
    IF p.w.err THEN Elogged(p.w)
    ELSE IF ISOCTAL(p.c)
    THEN OctalThird(CopyPeekChar(CopyDonePeek(p.w, p.c, TRUE)),
                    val * 8 + OCTVALUE(p.c))
    ELSE IF p.c = EOF THEN Ended(p.w, "END_OF_FILE")
    ELSE More(CopyDonePeek(p.w, p.c, FALSE), val % 256)

\* A backslash and the octal digit c have been read: up to two more digits
\* are peeked at and picked up, another character is put back.
ReadOctal(w, c) == OctalSecond(CopyPeekChar(w), OCTVALUE(c))

RECURSIVE Swallow(_)
\* `while (c != EOF) c = CopyGetChar();' after the end-of-copy marker, g
\* being what the last CopyGetChar returned.
Swallow(g) ==
    IF g.c = EOF \/ g.w.err THEN g.w ELSE Swallow(CopyGetChar(g.w))

\* The marker is complete and what follows it has been read.
EndOfCopy(w) == IF w.err THEN Elogged(w) ELSE Ended(w, "END_OF_FILE")

\* CopyGetChar has returned g where the marker's carriage return or
\* newline must stand; eol is eol_type.
EndOfCopyTerminator(g, eol) ==
    IF g.w.err \/ (g.c # CharCR /\ g.c # CharNL) THEN Elogged(g.w)
    ELSE IF \/ (eol \in {"EOL_NL", "EOL_CRNL"} /\ g.c # CharNL)
            \/ (eol = "EOL_CR" /\ g.c # CharCR)
    THEN Elogged(g.w)
    ELSE IF g.w.copy_dest = "COPY_NEW_FE" THEN EndOfCopy(Swallow(g))
    ELSE Ended(g.w, "END_OF_FILE")

\* With EOL_CRNL a carriage return must come first: CopyGetChar has
\* returned g.
EndOfCopyReturn(g, eol) ==
    IF g.w.err \/ g.c # CharCR THEN Elogged(g.w)
    ELSE EndOfCopyTerminator(CopyGetChar(g.w), eol)

\* A backslash and a dot have been read: the end-of-copy marker and the
\* line terminator that must follow it.
ReadEndOfCopy(w) ==
    IF w.eol_type = "EOL_CRNL" THEN EndOfCopyReturn(CopyGetChar(w), w.eol_type)
    ELSE EndOfCopyTerminator(CopyGetChar(w), w.eol_type)

\* `switch (c)' behind a backslash: CopyGetChar has returned g.
ReadEscaped(g) ==
    IF g.w.err THEN Elogged(g.w)
    ELSE IF g.c = EOF THEN Ended(g.w, "END_OF_FILE")
    ELSE IF ISOCTAL(g.c) THEN ReadOctal(g.w, g.c)
    ELSE CASE g.c = UpperN ->
                More(appendStringInfoCharMacro(g.w, CharBackslash), UpperN)
           [] g.c = LowerB -> More(g.w, CharBS)
           [] g.c = LowerF -> More(g.w, CharFF)
           [] g.c = LowerN -> More(g.w, CharNL)
           [] g.c = LowerR -> More(g.w, CharCR)
           [] g.c = LowerT -> More(g.w, CharTab)
           [] g.c = LowerV -> More(g.w, CharVT)
           [] g.c = CharDot -> ReadEndOfCopy(g.w)
           [] OTHER -> More(g.w, g.c)

\* `if (c == '\\')' of CopyReadAttribute: the character after the
\* backslash decides.
ReadEscape(w) == ReadEscaped(CopyGetChar(w))

RECURSIVE CopyReadLoop(_, _)
RECURSIVE ReadChar(_, _)
RECURSIVE ReadAppend(_, _)

\* The end of an iteration that has read an escape: e is its outcome.
ReadAppend(e, delimc) ==
    IF e.result # "" THEN e
    ELSE CopyReadLoop(appendStringInfoCharMacro(e.w, e.c), delimc)

\* One iteration of `for (;;)': CopyGetChar has returned g.
ReadChar(g, delimc) ==
    IF g.w.err THEN Elogged(g.w)
    ELSE IF g.c = EOF THEN Ended(g.w, "END_OF_FILE")
    ELSE IF g.c = CharCR THEN ReadReturn(g.w)
    ELSE IF g.c = CharNL THEN ReadNewline(g.w)
    ELSE IF g.c = delimc THEN Ended(g.w, "NORMAL_ATTR")
    ELSE IF g.c = CharBackslash THEN ReadAppend(ReadEscape(g.w), delimc)
    ELSE CopyReadLoop(appendStringInfoCharMacro(g.w, g.c), delimc)

\* `for (;;)' of CopyReadAttribute, client and server encoding equal.
CopyReadLoop(w, delimc) == ReadChar(CopyGetChar(w), delimc)

\* CopyReadAttribute(delim, &result): the static variables afterwards
\* (attribute_buf holds the string returned) and *result.
CopyReadAttribute(w, delimc) ==
    CopyReadLoop([w EXCEPT !.attribute_buf = << >>], delimc)

\* The text inputs: the characters that matter to the line state machine.
TextChars == {LowerA, CharTab, CharCR, CharNL, CharBackslash, CharDot}

Texts == UNION { [1..m -> TextChars] : m \in 0..MaxText }

RECURSIVE Chunks(_)
\* The text as CopyData messages of ChunkLen bytes.
Chunks(text) ==
    IF Len(text) <= ChunkLen
    THEN IF text = << >> THEN << >> ELSE <<[mtype |-> "d", body |-> text]>>
    ELSE <<[mtype |-> "d", body |-> SubSeq(text, 1, ChunkLen)]>>
             \o Chunks(SubSeq(text, ChunkLen + 1, Len(text)))

\* The client's side of COPY FROM STDIN in the new protocol.
CopyDone == <<[mtype |-> "c", body |-> << >>]>>

\* The sources of a COPY FROM that hold text: a file, the old protocol's
\* byte stream, or CopyData messages followed by CopyDone.
Sources(text) ==
    { [copy_dest |-> "COPY_FILE", copy_file |-> Opened(text),
       frontend |-> Sent(<< >>, << >>)],
      [copy_dest |-> "COPY_OLD_FE", copy_file |-> Opened(<< >>),
       frontend |-> Sent(text, << >>)],
      [copy_dest |-> "COPY_NEW_FE", copy_file |-> Opened(<< >>),
       frontend |-> Sent(<< >>, Chunks(text) \o CopyDone)] }

\* CopyFrom has initialized the static variables and stands before its
\* loop `while (!done)'; ret holds its local variables: the column being
\* read (cur), result and done, and for the properties the number of
\* lines ended (ends) and the static variables before the last call of
\* CopyReadAttribute (called, before).
CopyFromInit ==
    /\ NoScans
    /\ desc = << >>
    /\ attcacheoff = << >>
    /\ iattcacheoff = << >>
    /\ value = << >>
    /\ nulls = << >>
    /\ htup = NoTuple
    /\ itup = NoTuple
    /\ \E text \in Texts : \E s \in Sources(text) :
         /\ copy_dest = s.copy_dest
         /\ copy_file = s.copy_file
         /\ frontend = s.frontend
    /\ copy_msgbuf = makeStringInfo
    /\ fe_eof = FALSE
    /\ eol_type = "EOL_UNKNOWN"
    /\ copy_lineno = 0
    /\ attribute_buf = << >>
    /\ \E n \in 1..MaxCols :
         ret = [op |-> "CopyFrom", at |-> "top", natts |-> n, cur |-> 0,
                result |-> "NORMAL_ATTR", done |-> FALSE, err |-> FALSE,
                ends |-> 0, called |-> FALSE, before |-> World]

\* The record of CopyFrom's local variables after CopyReadAttribute has
\* returned r for column l.cur, called in the state w0: the tests that
\* follow the call in the loop over the columns and after it.
CopyFromRead(l, r, w0) ==
    LET base == [l EXCEPT !.result = r.result, !.called = TRUE, !.before = w0,
                          !.ends = IF r.result = "END_OF_LINE" /\ ~r.w.err
                                   THEN @ + 1 ELSE @]
    IN IF r.w.err THEN [base EXCEPT !.err = TRUE]
       ELSE IF r.result = "END_OF_FILE" /\ r.w.attribute_buf = << >> /\ l.cur = 1
       THEN [base EXCEPT !.done = TRUE, !.at = "end"]
       ELSE IF l.cur < l.natts THEN [base EXCEPT !.cur = @ + 1]
       ELSE IF r.result = "NORMAL_ATTR" THEN [base EXCEPT !.err = TRUE]
       ELSE [base EXCEPT !.at = "top", !.done = (r.result = "END_OF_FILE")]

\* The top of `while (!done)': copy_lineno++.
CopyFromLine ==
    /\ ret.op = "CopyFrom" /\ ret.at = "top" /\ ~ret.done /\ ~ret.err
    /\ copy_lineno' = copy_lineno + 1
    /\ ret' = [ret EXCEPT !.at = "attr", !.cur = 1, !.result = "NORMAL_ATTR",
                          !.called = FALSE]
    /\ UNCHANGED <<tupleVars, gistVars, copy_dest, copy_file, frontend, copy_msgbuf,
                   fe_eof, eol_type, attribute_buf>>

\* One pass of the loop over the columns: "Missing data" when the line has
\* ended, else CopyReadAttribute with the default delimiter (a tab) and
\* the tests of its result.
CopyFromAttribute ==
    /\ ret.op = "CopyFrom" /\ ret.at = "attr" /\ ~ret.done /\ ~ret.err
    /\ IF ret.result # "NORMAL_ATTR"
       THEN /\ ret' = [ret EXCEPT !.err = TRUE, !.called = FALSE]
            /\ UNCHANGED <<copyVars, gistVars>>
       ELSE LET r == CopyReadAttribute(World, CharTab)
            IN /\ Install(r.w)
               /\ ret' = CopyFromRead(ret, r, World)
    /\ UNCHANGED <<tupleVars, gistVars>>

TextNext == CopyFromLine \/ CopyFromAttribute

TextSpec == CopyFromInit /\ [][TextNext]_vars

(* --------------------------- copy.c: text output ---------------------- *)

\* Largest length of an attribute string written and read back.
MaxStr == 3

\* A comma, a delimiter users give.
CharComma == 44

\* What CopyAttributeOut sends for the character c of the string: the
\* arguments of its CopySendString and CopySendChar calls.
AttributeOutChar(c, delimc) ==
    CASE c = CharBS -> <<CharBackslash, LowerB>>
      [] c = CharFF -> <<CharBackslash, LowerF>>
      [] c = CharNL -> <<CharBackslash, LowerN>>
      [] c = CharCR -> <<CharBackslash, LowerR>>
      [] c = CharTab -> <<CharBackslash, LowerT>>
      [] c = CharVT -> <<CharBackslash, LowerV>>
      [] c = CharBackslash -> <<CharBackslash, CharBackslash>>
      [] OTHER -> IF c = delimc THEN <<CharBackslash, c>> ELSE <<c>>

RECURSIVE CopyAttributeOut(_, _)
\* CopyAttributeOut(string, delim), client and server encoding equal: the
\* bytes handed to CopySendData, which fwrite, pq_putbytes or
\* appendBinaryStringInfo add to the output in this order.
CopyAttributeOut(string, delimc) ==
    IF string = << >> THEN << >>
    ELSE AttributeOutChar(Head(string), delimc)
             \o CopyAttributeOut(Tail(string), delimc)

\* Delimiters DoCopy accepts: any string of length 1; these stand for the
\* ordinary ones (tab, comma) and for those the reader gives a meaning of
\* its own after a backslash or before its test of the delimiter.
Delimiters == {CharTab, CharComma, LowerN, Char0, CharDot, CharBackslash}

\* The characters of the attribute strings.
StringChars ==
    {LowerA, LowerN, UpperN, Char0, CharDot, CharBackslash, CharTab, CharNL, CharComma}

Strings == UNION { [1..m -> StringChars] : m \in 0..MaxStr }

\* No COPY is running and no tuple is held.
RoundInit ==
    /\ NoTuples
    /\ NoCopy
    /\ NoScans

\* COPY TO writes one attribute: CopyAttributeOut(string, delim).
CopyAttributeOutCall ==
    /\ ret = Idle
    /\ \E delimc \in Delimiters, string \in Strings :
         ret' = [op |-> "CopyAttributeOut", delimc |-> delimc, string |-> string,
                 sent |-> CopyAttributeOut(string, delimc)]
    /\ UNCHANGED <<tupleVars, copyVars, gistVars>>

\* What was written, followed by the delimiter or a newline, is the input
\* of a COPY FROM with the same delimiter: CopyFrom initializes the static
\* variables and enters its loop.
CopyFromBegin ==
    /\ ret.op = "CopyAttributeOut"
    /\ \E follow \in {ret.delimc, CharNL} :
       \E s \in Sources(ret.sent \o <<follow>>) :
         /\ copy_dest' = s.copy_dest
         /\ copy_file' = s.copy_file
         /\ frontend' = s.frontend
         /\ ret' = [op |-> "CopyFrom", delimc |-> ret.delimc, string |-> ret.string,
                    follow |-> follow]
    /\ copy_msgbuf' = makeStringInfo
    /\ fe_eof' = FALSE
    /\ eol_type' = "EOL_UNKNOWN"
    /\ copy_lineno' = 1
    /\ attribute_buf' = << >>
    /\ UNCHANGED <<tupleVars, gistVars>>

\* CopyReadAttribute(delim, &result) reads the attribute back.
CopyReadAttributeCall ==
    /\ ret.op = "CopyFrom"
    /\ LET r == CopyReadAttribute(World, ret.delimc)
       IN /\ Install(r.w)
          /\ ret' = [op |-> "CopyReadAttribute", delimc |-> ret.delimc,
                     string |-> ret.string, follow |-> ret.follow,
                     result |-> r.result, err |-> r.w.err]
    /\ UNCHANGED <<tupleVars, gistVars>>

\* The COPY FROM is over.
CopyFromEnd ==
    /\ ret.op = "CopyReadAttribute"
    /\ ret' = Idle
    /\ copy_dest' = "COPY_FILE"
    /\ copy_file' = Opened(<< >>)
    /\ frontend' = Sent(<< >>, << >>)
    /\ copy_msgbuf' = makeStringInfo
    /\ fe_eof' = FALSE
    /\ eol_type' = "EOL_UNKNOWN"
    /\ copy_lineno' = 0
    /\ attribute_buf' = << >>
    /\ UNCHANGED <<tupleVars, gistVars>>

RoundNext ==
    CopyAttributeOutCall \/ CopyFromBegin \/ CopyReadAttributeCall \/ CopyFromEnd

RoundSpec == RoundInit /\ [][RoundNext]_vars

(* --------------------------- copy.c: peeking -------------------------- *)

RECURSIVE Payloads(_)
\* The bodies of the CopyData messages at the head of msgs, joined.
Payloads(msgs) ==
    IF msgs = << >> \/ Head(msgs).mtype # "d" THEN << >>
    ELSE Head(msgs).body \o Payloads(Tail(msgs))

\* The bytes of CopyData payloads not yet delivered in w.
Undelivered(w) ==
    SubSeq(w.copy_msgbuf.data, w.copy_msgbuf.cursor + 1, Len(w.copy_msgbuf.data))
        \o Payloads(w.frontend.msgs)

\* The bytes of the input that have not been read in w.
Unread(w) ==
    CASE w.copy_dest = "COPY_FILE" ->
           w.copy_file.pushed
               \o SubSeq(w.copy_file.data, w.copy_file.pos + 1, Len(w.copy_file.data))
      [] w.copy_dest = "COPY_OLD_FE" -> w.frontend.stream
      [] w.copy_dest = "COPY_NEW_FE" -> Undelivered(w)

\* Largest number of bytes of a file or of the old protocol's stream that
\* is read byte by byte.
MaxInput == 3

\* An input of n bytes, numbered 1, 2, 3... in order.
Numbered(n) == [k \in 1..n |-> k]

\* The sources read byte by byte: a file and the old protocol's stream of
\* up to MaxInput bytes, and what a client sends in the new protocol.
PeekSources ==
    { [copy_dest |-> "COPY_FILE", copy_file |-> Opened(Numbered(n)),
       frontend |-> Sent(<< >>, << >>)] : n \in 0..MaxInput }
    \cup { [copy_dest |-> "COPY_OLD_FE", copy_file |-> Opened(<< >>),
            frontend |-> Sent(Numbered(n), << >>)] : n \in 0..MaxInput }
    \cup { [copy_dest |-> "COPY_NEW_FE", copy_file |-> Opened(<< >>),
            frontend |-> Sent(<< >>, msgs)] : msgs \in MessageStreams }

\* What a call leaves for the next one to be compared with.
Last(l) == [op |-> l.op, c |-> l.c, pickup |-> l.pickup]

\* CopyFrom has initialized the static variables; ret holds the last call
\* (op, the byte c it returned or was given, pickup), the call before it,
\* the bytes delivered to the caller so far and the whole input.
PeekInit ==
    /\ NoScans
    /\ desc = << >>
    /\ attcacheoff = << >>
    /\ iattcacheoff = << >>
    /\ value = << >>
    /\ nulls = << >>
    /\ htup = NoTuple
    /\ itup = NoTuple
    /\ \E s \in PeekSources :
         /\ copy_dest = s.copy_dest
         /\ copy_file = s.copy_file
         /\ frontend = s.frontend
    /\ copy_msgbuf = makeStringInfo
    /\ fe_eof = FALSE
    /\ eol_type = "EOL_UNKNOWN"
    /\ copy_lineno = 0
    /\ attribute_buf = << >>
    /\ ret = [op |-> "CopyFrom", c |-> EOF, pickup |-> FALSE, err |-> FALSE,
              prev |-> [op |-> "none", c |-> EOF, pickup |-> FALSE],
              delivered |-> << >>,
              input |-> IF copy_dest = "COPY_FILE" THEN copy_file.data
                        ELSE IF copy_dest = "COPY_OLD_FE" THEN frontend.stream
                        ELSE Payloads(frontend.msgs)]

\* No peeked byte waits for its CopyDonePeek, and no error has ended the
\* COPY.
MayRead ==
    /\ ret.op \in {"CopyFrom", "CopyGetChar", "CopyPeekChar", "CopyDonePeek",
                   "CopyGetBytes"}
    /\ ret.op = "CopyPeekChar" => ret.c = EOF
    /\ ~ret.err

\* c = CopyGetChar().
CopyGetCharCall ==
    /\ MayRead
    /\ LET r == CopyGetChar(World)
       IN /\ Install(r.w)
          /\ ret' = [ret EXCEPT !.op = "CopyGetChar", !.c = r.c, !.pickup = FALSE,
                                !.err = r.w.err, !.prev = Last(ret),
                                !.delivered = IF r.c = EOF THEN @ ELSE Append(@, r.c)]
    /\ UNCHANGED <<tupleVars, gistVars>>

\* c = CopyPeekChar().
CopyPeekCharCall ==
    /\ MayRead
    /\ LET r == CopyPeekChar(World)
       IN /\ Install(r.w)
          /\ ret' = [ret EXCEPT !.op = "CopyPeekChar", !.c = r.c, !.pickup = FALSE,
                                !.err = r.w.err, !.prev = Last(ret)]
    /\ UNCHANGED <<tupleVars, gistVars>>

\* CopyDonePeek(c, pickup) for the byte c that CopyPeekChar returned.
CopyDonePeekCall ==
    /\ ret.op = "CopyPeekChar"
    /\ ret.c # EOF
    /\ ~ret.err
    /\ \E pickup \in BOOLEAN :
         /\ Install(CopyDonePeek(World, ret.c, pickup))
         /\ ret' = [ret EXCEPT !.op = "CopyDonePeek", !.pickup = pickup,
                               !.prev = Last(ret),
                               !.delivered = IF pickup THEN Append(@, ret.c) ELSE @]
    /\ UNCHANGED <<tupleVars, gistVars>>

\* CopyGetData(databuf, datasize) between the reads of single bytes; c is
\* the first byte stored.
CopyGetBytesCall ==
    /\ MayRead
    /\ \E datasize \in 1..MaxGet :
         LET r == CopyGetData(World, datasize)
         IN /\ Install(r.w)
            /\ ret' = [ret EXCEPT !.op = "CopyGetBytes",
                                  !.c = IF r.databuf = << >> THEN EOF ELSE r.databuf[1],
                                  !.pickup = FALSE, !.err = r.w.err, !.prev = Last(ret),
                                  !.delivered = @ \o r.databuf]
    /\ UNCHANGED <<tupleVars, gistVars>>

PeekNext ==
    CopyGetCharCall \/ CopyPeekCharCall \/ CopyDonePeekCall \/ CopyGetBytesCall

PeekSpec == PeekInit /\ [][PeekNext]_vars

(* --------------------------- copy.c: DoCopy --------------------------- *)

\* Most options of a COPY statement.
MaxOptions == 2

\* Most rows a COPY FROM finds in its input.
MaxRows == 2

\* A char * is no string (NULL) or one string.
NoString == << >>

\* The option nodes of a statement: defname and arg, an integer (intVal)
\* or a string (strVal).
DefElems ==
    [defname : {"binary", "oids"}, ival : {0, 1}, sval : {<< >>}]
        \cup [defname : {"delimiter"}, ival : {0},
              sval : {<<CharComma>>, <<CharComma, CharComma>>}]
        \cup [defname : {"null", "other"}, ival : {0}, sval : {<<CharBS, UpperN>>}]

\* The COPY statements: direction, filename (pipe when there is none) and
\* options.
CopyStmts ==
    [is_from : BOOLEAN, pipe : BOOLEAN,
     options : UNION { [1..n -> DefElems] : n \in 0..MaxOptions }]

\* What DoCopy finds outside copy.c: the transaction's XactReadOnly, whether
\* the relation is in the temporary namespace, pg_class_aclcheck's result,
\* superuser(), the relation's relhasoids and relkind, IsUnderPostmaster,
\* the major version of FrontendProtocol, what AllocateFile opens, and the
\* rows of the input.
CopySettings ==
    [XactReadOnly : BOOLEAN, isTempNamespace : BOOLEAN,
     aclresult : {"ACLCHECK_OK", "ACLCHECK_NO_PRIV"}, superuser : BOOLEAN,
     relhasoids : BOOLEAN, relkind : {"r", "v", "S", "i"},
     IsUnderPostmaster : BOOLEAN, protocol : {2, 3},
     file : {"file", "NULL", "directory"}, rows : {0, MaxRows}]

\* The options before the loop of DoCopy reads them.
NoOptions ==
    [binary |-> FALSE, oids |-> FALSE, delim |-> NoString,
     null_print |-> NoString, err |-> ""]

RECURSIVE ExtractOptions(_, _, _)
\* The loop over stmt->options from its element i on; o holds binary, oids,
\* delim, null_print and the error raised.
ExtractOptions(options, i, o) ==
    IF i > Len(options) \/ o.err # "" THEN o
    ELSE LET defel == options[i]
         IN ExtractOptions(options, i + 1,
              CASE defel.defname = "binary" ->
                     IF o.binary
                     THEN [o EXCEPT !.err = "COPY: BINARY option appears more than once"]
                     ELSE [o EXCEPT !.binary = (defel.ival # 0)]
                [] defel.defname = "oids" ->
                     IF o.oids
                     THEN [o EXCEPT !.err = "COPY: OIDS option appears more than once"]
                     ELSE [o EXCEPT !.oids = (defel.ival # 0)]
                [] defel.defname = "delimiter" ->
                     IF o.delim # NoString
                     THEN [o EXCEPT !.err = "COPY: DELIMITER string may only be defined once in query"]
                     ELSE [o EXCEPT !.delim = <<defel.sval>>]
                [] defel.defname = "null" ->
                     IF o.null_print # NoString
                     THEN [o EXCEPT !.err = "COPY: NULL representation may only be defined once in query"]
                     ELSE [o EXCEPT !.null_print = <<defel.sval>>]
                [] OTHER -> [o EXCEPT !.err = "COPY: option not recognized"])

\* What a call of DoCopy comes to: the error raised (none: ""), the static
\* variables, which of CopyFrom and CopyTo ran, the rows inserted into the
\* relation and the rows read from it.
Refused(w, msg) ==
    [err |-> msg, w |-> w, ran |-> "none", inserted |-> 0, scanned |-> FALSE]

\* ReceiveCopyBegin and SendCopyBegin: the destination by protocol version.
CopyBegin(w, binary, e) ==
    IF e.protocol >= 3
    THEN [w EXCEPT !.copy_dest = "COPY_NEW_FE", !.copy_msgbuf = makeStringInfo]
    ELSE IF binary THEN Raise(w)
    ELSE [w EXCEPT !.copy_dest = "COPY_OLD_FE"]

\* The branch of DoCopy that copies from file to database, o the options
\* and w the static variables after their initialization.
DoCopyFrom(stmt, e, o, w) ==
    IF e.relkind # "r"
    THEN Refused(w, CASE e.relkind = "v" -> "You cannot copy view"
                      [] e.relkind = "S" -> "You cannot change sequence relation"
                      [] OTHER -> "You cannot copy object")
    ELSE IF stmt.pipe /\ e.IsUnderPostmaster /\ CopyBegin(w, o.binary, e).err
    THEN Refused(w, "COPY BINARY is not supported to stdout or from stdin")
    ELSE IF ~stmt.pipe /\ e.file = "NULL"
    THEN Refused(w, "COPY command could not open file for reading")
    ELSE IF ~stmt.pipe /\ e.file = "directory"
    THEN Refused(w, "COPY: is a directory")
    ELSE [err |-> "",
          w |-> IF stmt.pipe /\ e.IsUnderPostmaster
                THEN CopyBegin(w, o.binary, e) ELSE w,
          ran |-> "CopyFrom", inserted |-> e.rows, scanned |-> FALSE]

\* The branch that copies from database to file.
DoCopyTo(stmt, e, o, w) ==
    IF e.relkind # "r"
    THEN Refused(w, CASE e.relkind = "v" -> "You cannot copy view"
                      [] e.relkind = "S" -> "You cannot copy sequence"
                      [] OTHER -> "You cannot copy object")
    ELSE IF stmt.pipe /\ e.IsUnderPostmaster /\ CopyBegin(w, o.binary, e).err
    THEN Refused(w, "COPY BINARY is not supported to stdout or from stdin")
    ELSE IF ~stmt.pipe /\ e.file = "NULL"
    THEN Refused(w, "COPY command could not open file for writing")
    ELSE IF ~stmt.pipe /\ e.file = "directory"
    THEN Refused(w, "COPY: is a directory")
    ELSE [err |-> "",
          w |-> IF stmt.pipe /\ e.IsUnderPostmaster
                THEN CopyBegin(w, o.binary, e) ELSE w,
          ran |-> "CopyTo", inserted |-> 0, scanned |-> TRUE]

\* DoCopy after its options o are read.
DoCopyWith(stmt, e, o, w) ==
    IF o.err # "" THEN Refused(w, o.err)
    ELSE IF o.binary /\ o.delim # NoString
    THEN Refused(w, "You can not specify the DELIMITER in BINARY mode.")
    ELSE IF o.binary /\ o.null_print # NoString
    THEN Refused(w, "You can not specify NULL in BINARY mode.")
    ELSE IF e.XactReadOnly /\ ~stmt.is_from /\ ~e.isTempNamespace
    THEN Refused(w, "transaction is read-only")
    ELSE IF e.aclresult # "ACLCHECK_OK" THEN Refused(w, "permission denied")
    ELSE IF ~stmt.pipe /\ ~e.superuser
    THEN Refused(w, "You must have Postgres superuser privilege")
    ELSE IF o.delim # NoString /\ Len(o.delim[1]) # 1
    THEN Refused(w, "COPY delimiter must be a single character")
    ELSE IF o.oids /\ ~e.relhasoids
    THEN Refused(w, "COPY: table does not have OIDs")
    ELSE LET set == [w EXCEPT !.attribute_buf = << >>,
                              !.copy_dest = "COPY_FILE",
                              !.copy_file = Opened(<< >>),
                              !.copy_msgbuf = makeStringInfo,
                              !.fe_eof = FALSE]
         IN IF stmt.is_from THEN DoCopyFrom(stmt, e, o, set)
            ELSE DoCopyTo(stmt, e, o, set)

\* DoCopy(stmt) with the static variables w, in the settings e.
DoCopy(stmt, e, w) ==
    DoCopyWith(stmt, e, ExtractOptions(stmt.options, 1, NoOptions), w)

\* No COPY has run.
DoCopyInit ==
    /\ NoTuples
    /\ NoCopy
    /\ NoScans

\* A call DoCopy(stmt); ret keeps the direction, the settings the claim on
\* read-only transactions is about, and the outcome.
DoCopyCall ==
    /\ ret = Idle
    /\ \E stmt \in CopyStmts, e \in CopySettings :
         LET r == DoCopy(stmt, e, World)
         IN /\ Install(r.w)
            /\ ret' = [op |-> "DoCopy", is_from |-> stmt.is_from,
                       pipe |-> stmt.pipe, XactReadOnly |-> e.XactReadOnly,
                       isTempNamespace |-> e.isTempNamespace,
                       relkind |-> e.relkind, rows |-> e.rows,
                       err |-> r.err, ran |-> r.ran,
                       inserted |-> r.inserted, scanned |-> r.scanned]
    /\ UNCHANGED <<tupleVars, gistVars>>

\* The statement is over.
DoCopyReturn ==
    /\ ret # Idle
    /\ ret' = Idle
    /\ UNCHANGED <<tupleVars, copyVars, gistVars>>

DoCopyNext == DoCopyCall \/ DoCopyReturn

DoCopySpec == DoCopyInit /\ [][DoCopyNext]_vars

(* ------------------------- gistscan.c: scans -------------------------- *)

\* The pages of an index are the blocks 0..MaxBlock: block 0 is the root
\* and the parent of block b is block (b - 1) \div 2.
MaxBlock == 3

\* Most scans begun in the specification of the scan list.
MaxScans == 3

\* The resource owners are 1..MaxOwners.
MaxOwners == 2

\* Blocks of the specification that adjusts several scans: 0..MaxAdjBlock.
MaxAdjBlock == 1

\* The offsets of index tuples on a page: FirstOffsetNumber..MaxOffset.
MaxOffset == 2

InvalidBlockNumber == -1

InvalidOffsetNumber == 0

FirstOffsetNumber == 1

InvalidBuffer == 0

GS_CURBEFORE == 1

GS_MRKBEFORE == 2

GISTOP_DEL == 0

GISTOP_SPLIT == 1

\* x & ~b for an integer x and a single bit b.
BitClear(x, b) == IF BitAnd(x, b) # 0 THEN x - b ELSE x

OffsetNumberNext(off) == off + 1

OffsetNumberPrev(off) == off - 1

ItemPointerSet(blkno, offnum) == [ip_blkid |-> blkno, ip_posid |-> offnum]

\* What ItemPointerSetInvalid stores.
InvalidItemPointer == ItemPointerSet(InvalidBlockNumber, InvalidOffsetNumber)

ItemPointerIsValid(iptr) == iptr.ip_posid # InvalidOffsetNumber

BufferIsValid(buffer) == buffer # InvalidBuffer

\* ReleaseBuffer and IncrBufferRefCount on the pin counts refs.
ReleaseBuffer(refs, buffer) == [refs EXCEPT ![buffer] = @ - 1]

IncrBufferRefCount(refs, buffer) == [refs EXCEPT ![buffer] = @ + 1]

\* The buffer ReadBuffer returns for a block, with one more pin.
BufferOf(blkno) == blkno + 1

\* No buffer is pinned.
NoPins == [buffer \in 1..BufferOf(MaxBlock) |-> 0]

\* The scan descriptor RelationGetIndexScan returns for the index r.
RelationGetIndexScan(r) ==
    [indexRelation |-> r, currentItemData |-> InvalidItemPointer,
     currentMarkData |-> InvalidItemPointer, opaque |-> NULL]

\* The opaque data gistrescan initializes; freed: pfree has released it.
\* A GISTSTACK is the sequence of its (block, offset) entries from the
\* top on, each the parent of the one before.
EmptyOpaque ==
    [stack |-> NULL, markstk |-> NULL, flags |-> 0, curbuf |-> InvalidBuffer,
     markbuf |-> InvalidBuffer, freed |-> FALSE]

\* gistfreestack(s): every entry is freed.
gistfreestack(s) == NULL

\* gistrescan(scan, key) on the descriptor sc with the pin counts refs; the
\* scan keys are left out.
gistrescan(sc, refs) ==
    LET cleared == [sc EXCEPT !.currentItemData = InvalidItemPointer,
                              !.currentMarkData = InvalidItemPointer]
    IN IF sc.opaque # NULL
       THEN LET so == sc.opaque[1]
                cur == IF BufferIsValid(so.curbuf)
                       THEN ReleaseBuffer(refs, so.curbuf) ELSE refs
                mark == IF BufferIsValid(so.markbuf)
                        THEN ReleaseBuffer(cur, so.markbuf) ELSE cur
            IN [scan |-> [cleared EXCEPT !.opaque =
                            <<[so EXCEPT !.stack = gistfreestack(so.stack),
                                         !.markstk = gistfreestack(so.markstk),
                                         !.flags = 0,
                                         !.curbuf = InvalidBuffer,
                                         !.markbuf = InvalidBuffer]>>],
                refs |-> mark, low |-> mark]
       ELSE [scan |-> [cleared EXCEPT !.opaque = <<EmptyOpaque>>],
             refs |-> refs, low |-> refs]

RECURSIVE CopyStack(_, _)
\* The loop that copies the stack n from its top on; the copy made before
\* is the parent of each new entry, and o is the copy so far.
CopyStack(o, n) ==
    IF n = NULL THEN o ELSE CopyStack(<<Head(n)>> \o o, Tail(n))

\* gistmarkpos without the pin on curbuf.
gistmarkposUnpinned(sc, refs) ==
    LET so == sc.opaque[1]
        released == IF BufferIsValid(so.markbuf)
                    THEN ReleaseBuffer(refs, so.markbuf) ELSE refs
    IN [scan |-> [sc EXCEPT !.currentMarkData = sc.currentItemData,
                            !.opaque =
                              <<[so EXCEPT !.flags =
                                             IF BitAnd(so.flags, GS_CURBEFORE) # 0
                                             THEN BitOr(so.flags, GS_MRKBEFORE)
                                             ELSE BitClear(so.flags, GS_MRKBEFORE),
                                           !.markstk = CopyStack(NULL, so.stack),
                                           !.markbuf = so.curbuf]>>],
        refs |-> released, low |-> released]

\* gistmarkpos(scan); low is the pin counts once the old markbuf is released.
gistmarkpos(sc, refs) ==
    LET so == sc.opaque[1]
        released == IF BufferIsValid(so.markbuf)
                    THEN ReleaseBuffer(refs, so.markbuf) ELSE refs
    IN [scan |-> [sc EXCEPT !.currentMarkData = sc.currentItemData,
                            !.opaque =
                              <<[so EXCEPT !.flags =
                                             IF BitAnd(so.flags, GS_CURBEFORE) # 0
                                             THEN BitOr(so.flags, GS_MRKBEFORE)
                                             ELSE BitClear(so.flags, GS_MRKBEFORE),
                                           !.markstk = CopyStack(NULL, so.stack),
                                           !.markbuf =
                                             IF BufferIsValid(so.curbuf)
                                             THEN so.curbuf ELSE InvalidBuffer]>>],
        refs |-> IF BufferIsValid(so.curbuf)
                 THEN IncrBufferRefCount(released, so.curbuf) ELSE released,
        low |-> released]

\* gistrestrpos with the marked stack taken as it is.
gistrestrposShared(sc, refs) ==
    LET so == sc.opaque[1]
        released == IF BufferIsValid(so.curbuf)
                    THEN ReleaseBuffer(refs, so.curbuf) ELSE refs
    IN [scan |-> [sc EXCEPT !.currentItemData = sc.currentMarkData,
                            !.opaque =
                              <<[so EXCEPT !.flags =
                                             IF BitAnd(so.flags, GS_MRKBEFORE) # 0
                                             THEN BitOr(so.flags, GS_CURBEFORE)
                                             ELSE BitClear(so.flags, GS_CURBEFORE),
                                           !.stack = so.markstk,
                                           !.curbuf =
                                             IF BufferIsValid(so.markbuf)
                                             THEN so.markbuf ELSE InvalidBuffer]>>],
        refs |-> IF BufferIsValid(so.markbuf)
                 THEN IncrBufferRefCount(released, so.markbuf) ELSE released,
        low |-> released]

\* gistrestrpos(scan); low is the pin counts once the old curbuf is released.
gistrestrpos(sc, refs) ==
    LET so == sc.opaque[1]
        released == IF BufferIsValid(so.curbuf)
                    THEN ReleaseBuffer(refs, so.curbuf) ELSE refs
    IN [scan |-> [sc EXCEPT !.currentItemData = sc.currentMarkData,
                            !.opaque =
                              <<[so EXCEPT !.flags =
                                             IF BitAnd(so.flags, GS_MRKBEFORE) # 0
                                             THEN BitOr(so.flags, GS_CURBEFORE)
                                             ELSE BitClear(so.flags, GS_CURBEFORE),
                                           !.stack = CopyStack(NULL, so.markstk),
                                           !.curbuf =
                                             IF BufferIsValid(so.markbuf)
                                             THEN so.markbuf ELSE InvalidBuffer]>>],
        refs |-> IF BufferIsValid(so.markbuf)
                 THEN IncrBufferRefCount(released, so.markbuf) ELSE released,
        low |-> released]

\* gistregscan(scan): a new entry at the head of the list.
gistregscan(list, s, owner) ==
    <<[gsl_scan |-> s, gsl_owner |-> owner]>> \o list

\* The list without its entry l.
Unlink(list, l) == SubSeq(list, 1, l - 1) \o SubSeq(list, l + 1, Len(list))

RECURSIVE FindScan(_, _, _)
\* The loop of gistdropscan from entry l on: the first entry of the scan s,
\* 0 when the end of the list is reached.
FindScan(list, s, l) ==
    IF l > Len(list) THEN 0
    ELSE IF list[l].gsl_scan = s THEN l
    ELSE FindScan(list, s, l + 1)

\* gistdropscan that unlinks the entry after the one found.
gistdropscanNext(list, s) ==
    IF FindScan(list, s, 1) = 0 THEN [list |-> list, err |-> TRUE]
    ELSE [list |-> Unlink(list, FindScan(list, s, 1) + 1), err |-> FALSE]

\* gistdropscan(scan); err: "GiST scan list corrupted" is raised.
gistdropscan(list, s) ==
    IF FindScan(list, s, 1) = 0 THEN [list |-> list, err |-> TRUE]
    ELSE [list |-> Unlink(list, FindScan(list, s, 1)), err |-> FALSE]

\* gistendscan(scan): the opaque data is released, then the scan is dropped
\* from the list.
gistendscan(sc, refs, list, s) ==
    LET dropped == gistdropscan(list, s)
    IN IF sc.opaque # NULL
       THEN LET so == sc.opaque[1]
                cur == IF BufferIsValid(so.curbuf)
                       THEN ReleaseBuffer(refs, so.curbuf) ELSE refs
                mark == IF BufferIsValid(so.markbuf)
                        THEN ReleaseBuffer(cur, so.markbuf) ELSE cur
            IN [scan |-> [sc EXCEPT !.opaque =
                            <<[so EXCEPT !.stack = gistfreestack(so.stack),
                                         !.markstk = gistfreestack(so.markstk),
                                         !.freed = TRUE]>>],
                refs |-> mark, list |-> dropped.list, err |-> dropped.err]
       ELSE [scan |-> sc, refs |-> refs, list |-> dropped.list,
             err |-> dropped.err]

RECURSIVE ReleaseFrom(_, _, _)
\* The loop of ReleaseResources_gist from entry l on.
ReleaseFrom(list, l, owner) ==
    IF l > Len(list) THEN list
    ELSE IF list[l].gsl_owner = owner
    THEN ReleaseFrom(Unlink(list, l), l, owner)
    ELSE ReleaseFrom(list, l + 1, owner)

ReleaseResources_gist(list, owner) == ReleaseFrom(list, 1, owner)

\* adjuststack(stk, blkno).
adjuststack(stk, blkno) ==
    [i \in 1..Len(stk) |->
        IF stk[i].block = blkno
        THEN [stk[i] EXCEPT !.offset = FirstOffsetNumber] ELSE stk[i]]

\* The flag that belongs to an item pointer of the scan.
BeforeFlag(field) ==
    IF field = "currentItemData" THEN GS_CURBEFORE ELSE GS_MRKBEFORE

\* The flags of the scan become flags.
WithFlags(sc, flags) == [sc EXCEPT !.opaque = <<[sc.opaque[1] EXCEPT !.flags = flags]>>]

\* The item pointer field of the scan becomes iptr.
WithPointer(sc, field, iptr) ==
    IF field = "currentItemData" THEN [sc EXCEPT !.currentItemData = iptr]
    ELSE [sc EXCEPT !.currentMarkData = iptr]

\* The flags of the opaque data; a scan that was never rescanned has none
\* and reading them dereferences NULL.
FlagsOf(sc) == sc.opaque[1].flags

\* adjustiptr that backs up only positions above offnum.
adjustiptrAbove(sc, field, op, blkno, offnum) ==
    LET iptr == sc[field]
        curoff == iptr.ip_posid
    IN IF ~ItemPointerIsValid(iptr) \/ iptr.ip_blkid # blkno
       THEN [scan |-> sc, err |-> FALSE]
       ELSE IF op = GISTOP_DEL
       THEN IF curoff > offnum
            THEN IF curoff > FirstOffsetNumber
                 THEN [scan |-> WithPointer(sc, field,
                                  ItemPointerSet(blkno, OffsetNumberPrev(curoff))),
                       err |-> FALSE]
                 ELSE [scan |-> WithFlags(
                                  WithPointer(sc, field,
                                    ItemPointerSet(blkno, FirstOffsetNumber)),
                                  BitOr(FlagsOf(sc), BeforeFlag(field))),
                       err |-> FALSE]
            ELSE [scan |-> sc, err |-> FALSE]
       ELSE IF op = GISTOP_SPLIT
       THEN [scan |-> WithFlags(
                        WithPointer(sc, field,
                          ItemPointerSet(blkno, FirstOffsetNumber)),
                        BitClear(FlagsOf(sc), BeforeFlag(field))),
             err |-> FALSE]
       ELSE [scan |-> sc, err |-> TRUE]

\* adjustiptr(scan, iptr, op, blkno, offnum), iptr being the field of the
\* scan; err: "Bad operation in GiST scan adjust" is raised.
adjustiptr(sc, field, op, blkno, offnum) ==
    LET iptr == sc[field]
        curoff == iptr.ip_posid
    IN IF ~ItemPointerIsValid(iptr) \/ iptr.ip_blkid # blkno
       THEN [scan |-> sc, err |-> FALSE]
       ELSE IF op = GISTOP_DEL
       THEN IF curoff >= offnum
            THEN IF curoff > FirstOffsetNumber
                 THEN [scan |-> WithPointer(sc, field,
                                  ItemPointerSet(blkno, OffsetNumberPrev(curoff))),
                       err |-> FALSE]
                 ELSE [scan |-> WithFlags(
                                  WithPointer(sc, field,
                                    ItemPointerSet(blkno, FirstOffsetNumber)),
                                  BitOr(FlagsOf(sc), BeforeFlag(field))),
                       err |-> FALSE]
            ELSE [scan |-> sc, err |-> FALSE]
       ELSE IF op = GISTOP_SPLIT
       THEN [scan |-> WithFlags(
                        WithPointer(sc, field,
                          ItemPointerSet(blkno, FirstOffsetNumber)),
                        BitClear(FlagsOf(sc), BeforeFlag(field))),
             err |-> FALSE]
       ELSE [scan |-> sc, err |-> TRUE]

\* gistadjone after the two item pointers are adjusted: the stacks on a
\* split.  A scan that was never rescanned has no opaque data: so->stack
\* dereferences NULL and the backend fails (err).
AdjustStacks(r, op, blkno) ==
    IF r.err \/ op # GISTOP_SPLIT THEN r
    ELSE IF r.scan.opaque = NULL THEN [r EXCEPT !.err = TRUE]
    ELSE [r EXCEPT !.scan.opaque =
            <<[r.scan.opaque[1] EXCEPT
                 !.stack = adjuststack(r.scan.opaque[1].stack, blkno),
                 !.markstk = adjuststack(r.scan.opaque[1].markstk, blkno)]>>]

\* gistadjone after the current item pointer is adjusted.
AdjustMark(r, op, blkno, offnum) ==
    IF r.err THEN r
    ELSE AdjustStacks(adjustiptr(r.scan, "currentMarkData", op, blkno, offnum),
                      op, blkno)

\* gistadjone(scan, op, blkno, offnum).
gistadjone(sc, op, blkno, offnum) ==
    AdjustMark(adjustiptr(sc, "currentItemData", op, blkno, offnum),
               op, blkno, offnum)

RECURSIVE AdjustFrom(_, _, _, _, _, _, _)
\* The loop of gistadjscans from entry l of the list on; r holds the scan
\* descriptors and the error raised.
AdjustFrom(list, l, r, relid, op, blkno, offnum) ==
    IF l > Len(list) \/ r.err THEN r
    ELSE IF r.scan[list[l].gsl_scan].indexRelation = relid
    THEN AdjustFrom(list, l + 1,
           [scan |-> [r.scan EXCEPT ![list[l].gsl_scan] =
                        gistadjone(@, op, blkno, offnum).scan],
            err |-> gistadjone(r.scan[list[l].gsl_scan], op, blkno, offnum).err],
           relid, op, blkno, offnum)
    ELSE AdjustFrom(list, l + 1, r, relid, op, blkno, offnum)

\* gistadjscans(rel, op, blkno, offnum) on the list and the scan
\* descriptors scans.
gistadjscans(list, scans, relid, op, blkno, offnum) ==
    AdjustFrom(list, 1, [scan |-> scans, err |-> FALSE], relid, op, blkno, offnum)

(* ------------------------ gistscan.c: the calls ----------------------- *)

\* The offsets of the specification that follows one scan: the first two.
Offsets == {FirstOffsetNumber, OffsetNumberNext(FirstOffsetNumber)}

\* The offsets of the specification that adjusts several scans.
AdjOffsets == FirstOffsetNumber..MaxOffset

\* The relation ids of the index scanned and of another index.
IndexOids == {1, 2}

\* The operations gistadjscans is called with.
GistOps == {GISTOP_DEL, GISTOP_SPLIT}

RECURSIVE Paths(_)
\* The parent stacks a scan can hold on block blkno: the path from its
\* parent to the root, with an offset on each page.
Paths(blkno) ==
    IF blkno = 0 THEN {NULL}
    ELSE { <<[block |-> (blkno - 1) \div 2, offset |-> off]>> \o path :
             off \in Offsets, path \in Paths((blkno - 1) \div 2) }

\* The scan moves to the item off of block blkno (gistget.c): curbuf is
\* released and the buffer of the block is pinned, the stack is the path to
\* the block, and the scan is on the item, not before it.
gistnext(sc, refs, blkno, off, path) ==
    LET so == sc.opaque[1]
        released == IF BufferIsValid(so.curbuf)
                    THEN ReleaseBuffer(refs, so.curbuf) ELSE refs
    IN [scan |-> [sc EXCEPT !.currentItemData = ItemPointerSet(blkno, off),
                            !.opaque =
                              <<[so EXCEPT !.stack = path,
                                           !.flags = BitClear(so.flags, GS_CURBEFORE),
                                           !.curbuf = BufferOf(blkno)]>>],
        refs |-> IncrBufferRefCount(released, BufferOf(blkno)),
        low |-> released]

\* The scan finds no further item (gistget.c): curbuf is released and the
\* stack is freed.
gistnextEnd(sc, refs) ==
    LET so == sc.opaque[1]
        released == IF BufferIsValid(so.curbuf)
                    THEN ReleaseBuffer(refs, so.curbuf) ELSE refs
    IN [scan |-> [sc EXCEPT !.opaque =
                    <<[so EXCEPT !.stack = gistfreestack(so.stack),
                                 !.curbuf = InvalidBuffer]>>],
        refs |-> released, low |-> released]

\* The opaque data of the scan s was freed.
Freed(s) == scan[s].opaque # NULL /\ scan[s].opaque[1].freed

\* The scan s has opaque data that is not freed.
Used(s) == scan[s].opaque # NULL /\ ~scan[s].opaque[1].freed

\* The scans a caller may still use: begun, neither ended nor released;
\* ret.open holds each with the resource owner it was begun under.
Open(s) == \E e \in ret.open : e.s = s

\* Where the scan sc is: its current item pointer, whether it is before
\* that item, and its parent stack.
Position(sc) ==
    [item |-> sc.currentItemData,
     curbefore |-> BitAnd(sc.opaque[1].flags, GS_CURBEFORE) # 0,
     stack |-> sc.opaque[1].stack]

\* Pins the descriptors scans account for: one for each valid curbuf and
\* markbuf of opaque data that is not freed.
PinsOf(scans) ==
    [buffer \in 1..BufferOf(MaxBlock) |->
        Cardinality({ s \in 1..Len(scans) :
                        /\ scans[s].opaque # NULL
                        /\ ~scans[s].opaque[1].freed
                        /\ scans[s].opaque[1].curbuf = buffer })
        + Cardinality({ s \in 1..Len(scans) :
                        /\ scans[s].opaque # NULL
                        /\ ~scans[s].opaque[1].freed
                        /\ scans[s].opaque[1].markbuf = buffer })]

\* What ret records of a call: the operation, the scan, whether an error
\* was raised, the pin counts in the middle of the call; and of the calls
\* before: the scan marked last with its position then (no entry once an
\* index update has changed that scan), whether the scan was rescanned
\* since, and the scans begun and neither ended nor released.
Did(op, s, err, low, marked, rescanned, open) ==
    [op |-> op, s |-> s, err |-> err, low |-> low, marked |-> marked,
     rescanned |-> rescanned, open |-> open]

\* No scan is begun.
GistInit ==
    /\ desc = << >>
    /\ attcacheoff = << >>
    /\ iattcacheoff = << >>
    /\ value = << >>
    /\ nulls = << >>
    /\ htup = NoTuple
    /\ itup = NoTuple
    /\ NoCopy
    /\ GISTScans = NULL
    /\ scan = << >>
    /\ PrivateRefCount = NoPins
    /\ CurrentResourceOwner = 1
    /\ ret = Did("none", 0, FALSE, NoPins, << >>, FALSE, {})

\* gistbeginscan(r, nkeys, key) on an index of oids, while fewer than limit
\* scans were begun: the descriptor is new and is registered.
gistbeginscanCall(limit, oids) ==
    /\ Len(scan) < limit
    /\ \E r \in oids : scan' = Append(scan, RelationGetIndexScan(r))
    /\ GISTScans' = gistregscan(GISTScans, Len(scan) + 1, CurrentResourceOwner)
    /\ ret' = Did("gistbeginscan", Len(scan) + 1, FALSE, PrivateRefCount,
                  ret.marked, ret.rescanned, ret.open \cup {[s |-> Len(scan) + 1, owner |-> CurrentResourceOwner]})
    /\ UNCHANGED <<PrivateRefCount, CurrentResourceOwner, tupleVars, copyVars>>

\* gistrescan(scan, key).
gistrescanCall ==
    \E s \in 1..Len(scan) :
       /\ Open(s)
       /\ LET r == gistrescan(scan[s], PrivateRefCount)
          IN /\ scan' = [scan EXCEPT ![s] = r.scan]
             /\ PrivateRefCount' = r.refs
             /\ ret' = Did("gistrescan", s, FALSE, r.low, ret.marked,
                           ret.rescanned \/ (ret.marked # << >> /\ ret.marked[1].s = s),
                           ret.open)
       /\ UNCHANGED <<GISTScans, CurrentResourceOwner, tupleVars, copyVars>>

\* The scan s has moved as r says.
Moved(s, r) ==
    /\ scan' = [scan EXCEPT ![s] = r.scan]
    /\ PrivateRefCount' = r.refs
    /\ ret' = Did("gistnext", s, FALSE, r.low, ret.marked, ret.rescanned, ret.open)

\* The scan goes on: to an item of some block, or to its end.
gistnextCall ==
    \E s \in 1..Len(scan) :
       /\ Open(s)
       /\ Used(s)
       /\ \/ \E blkno \in 0..MaxBlock, off \in Offsets :
               \E path \in Paths(blkno) :
                  Moved(s, gistnext(scan[s], PrivateRefCount, blkno, off, path))
          \/ Moved(s, gistnextEnd(scan[s], PrivateRefCount))
       /\ UNCHANGED <<GISTScans, CurrentResourceOwner, tupleVars, copyVars>>

\* gistmarkpos(scan).
gistmarkposCall ==
    \E s \in 1..Len(scan) :
       /\ Open(s)
       /\ Used(s)
       /\ LET r == gistmarkpos(scan[s], PrivateRefCount)
          IN /\ scan' = [scan EXCEPT ![s] = r.scan]
             /\ PrivateRefCount' = r.refs
             /\ ret' = Did("gistmarkpos", s, FALSE, r.low,
                           <<[s |-> s, position |-> Position(scan[s])]>>,
                           FALSE, ret.open)
       /\ UNCHANGED <<GISTScans, CurrentResourceOwner, tupleVars, copyVars>>

\* gistrestrpos(scan).
gistrestrposCall ==
    \E s \in 1..Len(scan) :
       /\ Open(s)
       /\ Used(s)
       /\ LET r == gistrestrpos(scan[s], PrivateRefCount)
          IN /\ scan' = [scan EXCEPT ![s] = r.scan]
             /\ PrivateRefCount' = r.refs
             /\ ret' = Did("gistrestrpos", s, FALSE, r.low, ret.marked,
                           ret.rescanned, ret.open)
       /\ UNCHANGED <<GISTScans, CurrentResourceOwner, tupleVars, copyVars>>

\* gistendscan(scan) on a scan whose opaque data was not freed before; the
\* scan need not be in the list any more.  ret keeps the list as it was.
gistendscanCall ==
    \E s \in 1..Len(scan) :
       /\ ~Freed(s)
       /\ LET r == gistendscan(scan[s], PrivateRefCount, GISTScans, s)
          IN /\ scan' = [scan EXCEPT ![s] = r.scan]
             /\ PrivateRefCount' = r.refs
             /\ GISTScans' = r.list
             /\ ret' = Did("gistendscan", s, r.err, r.refs, ret.marked,
                           ret.rescanned, { e \in ret.open : e.s # s })
                       @@ [list |-> GISTScans]
       /\ UNCHANGED <<CurrentResourceOwner, tupleVars, copyVars>>

\* ReleaseResources_gist(); ret keeps the list as it was.
ReleaseResources_gistCall ==
    /\ GISTScans' = ReleaseResources_gist(GISTScans, CurrentResourceOwner)
    /\ ret' = Did("ReleaseResources_gist", 0, FALSE, PrivateRefCount, ret.marked,
                  ret.rescanned,
                  { e \in ret.open : e.owner # CurrentResourceOwner })
              @@ [list |-> GISTScans]
    /\ UNCHANGED <<scan, PrivateRefCount, CurrentResourceOwner, tupleVars, copyVars>>

\* A transaction or subtransaction begins or ends: another resource owner
\* is the current one.
SetCurrentResourceOwner ==
    /\ \E owner \in 1..MaxOwners :
         /\ owner # CurrentResourceOwner
         /\ CurrentResourceOwner' = owner
    /\ ret' = Did("none", 0, FALSE, PrivateRefCount, ret.marked, ret.rescanned,
                  ret.open)
    /\ UNCHANGED <<GISTScans, scan, PrivateRefCount, tupleVars, copyVars>>

\* gistadjscans(rel, op, blkno, offnum); ret keeps kept.  A mark is no
\* longer comparable once the update has changed its scan.
Adjusted(r, kept) ==
    /\ scan' = r.scan
    /\ ret' = Did("gistadjscans", 0, r.err, PrivateRefCount,
                  IF ret.marked # << >>
                     /\ r.scan[ret.marked[1].s] # scan[ret.marked[1].s]
                  THEN << >> ELSE ret.marked,
                  ret.rescanned, ret.open) @@ kept
    /\ UNCHANGED <<GISTScans, PrivateRefCount, CurrentResourceOwner, tupleVars, copyVars>>

\* An index update while one scan is followed.
gistadjscansDuring ==
    \E relid \in IndexOids, op \in GistOps, blkno \in 0..MaxBlock, offnum \in Offsets :
       Adjusted(gistadjscans(GISTScans, scan, relid, op, blkno, offnum),
                [gop |-> op])

\* An index update, with an operation gistadjscans does not know too; ret
\* keeps the arguments and the descriptors as they were.
gistadjscansCall ==
    \E relid \in IndexOids, op \in GistOps \cup {GISTOP_SPLIT + 1},
       blkno \in 0..MaxAdjBlock, offnum \in AdjOffsets :
       Adjusted(gistadjscans(GISTScans, scan, relid, op, blkno, offnum),
                [relid |-> relid, gop |-> op, blkno |-> blkno,
                 offnum |-> offnum, scans |-> scan])

\* One scan: begun, rescanned, moved, marked, restored, adjusted by index
\* updates and ended.
GistNext ==
    \/ gistbeginscanCall(1, {1})
    \/ gistrescanCall
    \/ gistnextCall
    \/ gistmarkposCall
    \/ gistrestrposCall
    \/ gistadjscansDuring
    \/ gistendscanCall

GistSpec == GistInit /\ [][GistNext]_vars

\* The scan list: scans are begun and ended under changing resource owners,
\* which are released.
GistListNext ==
    \/ gistbeginscanCall(MaxScans, IndexOids)
    \/ gistendscanCall
    \/ ReleaseResources_gistCall
    \/ SetCurrentResourceOwner

GistListSpec == GistInit /\ [][GistListNext]_vars

\* The item pointers of the scans that are adjusted together.
AdjPointers ==
    {InvalidItemPointer}
        \cup { ItemPointerSet(blkno, off) : blkno \in 0..MaxAdjBlock, off \in AdjOffsets }

RECURSIVE PathTo(_)
\* One parent stack of a scan on block blkno (none when blkno is no block).
PathTo(blkno) ==
    IF blkno <= 0 THEN NULL
    ELSE <<[block |-> (blkno - 1) \div 2, offset |-> MaxOffset]>>
            \o PathTo((blkno - 1) \div 2)

\* The buffer a scan holds for the item pointer iptr.
BufferAt(iptr) ==
    IF ItemPointerIsValid(iptr) THEN BufferOf(iptr.ip_blkid) ELSE InvalidBuffer

\* The descriptor of a scan of the index r that was marked at mark and is
\* now at item.
Positioned(r, item, mark, flags) ==
    [indexRelation |-> r, currentItemData |-> item, currentMarkData |-> mark,
     opaque |-> <<[EmptyOpaque EXCEPT
                     !.stack = PathTo(item.ip_blkid),
                     !.markstk = CopyStack(NULL, PathTo(mark.ip_blkid)),
                     !.flags = flags,
                     !.curbuf = BufferAt(item),
                     !.markbuf = BufferAt(mark)]>>]

\* Two scans are open: one anywhere, or not rescanned yet, and a newer one
\* that has just marked its position.
GistAdjInit ==
    /\ desc = << >>
    /\ attcacheoff = << >>
    /\ iattcacheoff = << >>
    /\ value = << >>
    /\ nulls = << >>
    /\ htup = NoTuple
    /\ itup = NoTuple
    /\ NoCopy
    /\ \E a \in { Positioned(r, item, mark, flags) :
                     r \in IndexOids, item \in AdjPointers, mark \in AdjPointers,
                     flags \in {0, GS_MRKBEFORE} }
                 \cup { RelationGetIndexScan(r) : r \in IndexOids },
          b \in { Positioned(r, item, item, 0) :
                     r \in IndexOids, item \in AdjPointers } :
         scan = <<a, b>>
    /\ GISTScans = gistregscan(gistregscan(NULL, 1, 1), 2, 1)
    /\ PrivateRefCount = PinsOf(scan)
    /\ CurrentResourceOwner = 1
    /\ ret = Did("none", 0, FALSE, PrivateRefCount, << >>, FALSE,
                 {[s |-> 1, owner |-> 1], [s |-> 2, owner |-> 1]})

\* One index update.
GistAdjNext == ret.op = "none" /\ gistadjscansCall

GistAdjSpec == GistAdjInit /\ [][GistAdjNext]_vars

(* ------------------------------ properties ---------------------------- *)

\* The nulls[] array without null attributes, for a descriptor d.
NoNulls(d) == [i \in 1..Len(d) |-> " "]

RECURSIVE Squeeze(_, _, _)
\* The entries of s, from the i-th on, whose attribute is not null in n.
Squeeze(s, n, i) ==
    IF i > Len(s) THEN << >>
    ELSE IF n[i] = " " THEN <<s[i]>> \o Squeeze(s, n, i + 1)
    ELSE Squeeze(s, n, i + 1)

\* The number of bytes the datum v of an attribute of type a occupies.
DatumLen(a, v) == IF a.attlen = -1 THEN FromBytes(SubSeq(v, 1, 3)) ELSE a.attlen

RECURSIVE StartOf(_, _, _)
\* The offset at which attribute i (1-based) of descriptor d starts when
\* attributes 1..i with the values v are laid out one after the other, each
\* at its alignment.
StartOf(d, v, i) ==
    IF i = 1 THEN 0
    ELSE AttAlign(d[i], StartOf(d, v, i - 1) + DatumLen(d[i - 1], v[i - 1]))

\* The number of non-null attributes among 1..i.
Rank(n, i) == Cardinality({j \in 1..i : n[j] = " "})

\* The start of non-null attribute i in the layout of the non-null
\* attributes alone.
StartWithoutNulls(d, v, n, i) ==
    StartOf(Squeeze(d, n, 1), Squeeze(v, n, 1), Rank(n, i))

RECURSIVE LayoutStart(_, _)
\* The start of attribute j (1-based) when the attributes before it are
\* all present and each takes attlen bytes.
LayoutStart(d, j) ==
    IF j = 1 THEN 0
    ELSE AttAlign(d[j], LayoutStart(d, j - 1) + d[j - 1].attlen)

\* Some attribute before i is null.
NullBefore(n, i) == \E j \in 1..(i - 1) : n[j] = "n"

\* C1: the tuple built by heap_formtuple decodes back to its inputs:
\* heap_attisnull reports null exactly for the attributes with nulls[] 'n',
\* and nocachegetattr, started with all cached offsets unset, returns the
\* value passed for every other attribute, reading inside the tuple.
HeapRoundTrip ==
    ret.op = "heap_decode" =>
        \A i \in 1..Len(desc) :
            /\ (ret.isnull[i] = 1) <=> (nulls[i] = "n")
            /\ nulls[i] = " " =>
                 /\ ~ret.res[i].err
                 /\ ~ret.res[i].wild
                 /\ ret.res[i].val = value[i]

\* A tuple read back in which a variable-length attribute follows a null
\* one and is followed by a non-null one that the slow walk located.
HeapRoundTripWitness ==
    /\ ret.op = "heap_decode"
    /\ \E i, j, k \in 1..Len(desc) :
         /\ i < j /\ j < k
         /\ nulls[i] = "n"
         /\ desc[j].attlen = -1 /\ nulls[j] = " "
         /\ nulls[k] = " " /\ ret.res[k].slow
         /\ ret.res[k].val = value[k]

\* C2: every non-null attribute of the tuple built by index_formtuple is
\* returned by nocache_index_getattr, started with all cached offsets
\* unset, as the value passed, wherever the null attributes before it are.
IndexRoundTrip ==
    ret.op = "index_decode" =>
        \A i \in NonNull(nulls) :
            /\ ~ret.res[i].err
            /\ ret.res[i].val = value[i]

\* C3: DataFill advances through exactly ComputeDataSize bytes, alignment
\* padding included, and writes nothing past that size.
SizeAgreement ==
    ret.op = "heap_formtuple" =>
        /\ ~htup.err
        /\ ret.size = ret.filled
        /\ ~htup.overflow
        /\ Len(htup.data) = ret.size

\* A tuple formed with padding, with a null attribute and with
\* variable-length attributes before and after it.
SizeAgreementWitness ==
    /\ ret.op = "heap_formtuple"
    /\ \E i, j, k \in 1..Len(desc) :
         /\ i < j /\ j < k
         /\ desc[i].attlen = -1 /\ nulls[i] = " "
         /\ nulls[j] = "n"
         /\ desc[k].attlen = -1 /\ nulls[k] = " "
         /\ StartOf(desc, value, i) + DatumLen(desc[i], value[i])
              < StartWithoutNulls(desc, value, nulls, k)
    /\ ret.size = ret.filled

\* C4: whatever calls and resets of cached offsets came before, a
\* nocachegetattr call on a non-null attribute returns what the same call
\* returns with all cached offsets unset.
HeapCacheTransparent ==
    ret.op = "nocachegetattr" =>
        /\ ~ret.res.err
        /\ ~ret.res.wild
        /\ ret.res.val = ret.fresh.val
        /\ ret.res.val = value[ret.attnum]

\* A call that found a populated cached offset behind one that had been
\* reset, on a tuple with a null attribute.
HeapCacheTransparentWitness ==
    /\ ret.op = "nocachegetattr"
    /\ HasNull(nulls)
    /\ \E j, k \in 2..Len(desc) :
         /\ j < k
         /\ ret.before[j] = Unset
         /\ ret.before[k] > 0
         /\ k <= ret.attnum
    /\ ret.res.val = ret.fresh.val

\* C5: on index tuples without null attributes, whatever calls came
\* before, a nocache_index_getattr call returns what the same call returns
\* with all cached offsets unset.
IndexCacheTransparent ==
    ret.op = "nocache_index_getattr" =>
        /\ ~ret.res.err
        /\ ret.res.val = ret.fresh.val

\* The populated cached offsets: an offset that is not above 0 is one the
\* accessors take for unset.
Populated(cache) ==
    [j \in 1..Len(cache) |-> IF cache[j] > 0 THEN cache[j] ELSE Unset]

\* C6: called in step on the row tuple and the index tuple formed from the
\* same arrays, the two accessors return the same value and leave the same
\* populated cached offsets.
BothDecodeAlike ==
    ret.op = "both" =>
        /\ ret.hres.err = ret.ires.err
        /\ ret.hres.val = ret.ires.val
        /\ Populated(attcacheoff) = Populated(iattcacheoff)

\* C7: the size ComputeDataSize returns and the bytes DataFill writes are
\* those of the descriptor and values without the null attributes, and
\* nocachegetattr finds each non-null attribute at its start in the layout
\* of the non-null attributes alone.
NullsTakeNoSpace ==
    LET d == Squeeze(desc, nulls, 1)
        v == Squeeze(value, nulls, 1)
    IN /\ ret.op = "heap_formtuple" =>
            /\ ret.size = ComputeDataSize(d, v, NoNulls(d))
            /\ ret.filled = Len(DataFill(d, v, NoNulls(d), FALSE).data)
            /\ htup.data = DataFill(d, v, NoNulls(d), FALSE).data
       /\ ret.op = "heap_decode" =>
            \A i \in NonNull(nulls) :
                ret.res[i].off = StartWithoutNulls(desc, value, nulls, i)

\* Attribute 5 of [fixed4, null, fixed4, varlen, fixed4] read back, the
\* null attribute being of a type whose size or alignment would have moved
\* the attributes behind it.
NullsTakeNoSpaceWitness ==
    /\ ret.op = "heap_decode"
    /\ desc \in NullPrefixDescriptors
    /\ nulls = <<" ", "n", " ", " ", " ">>
    /\ StartOf(desc, value, 5) # StartWithoutNulls(desc, value, nulls, 5)
    /\ ret.res[5].off = StartWithoutNulls(desc, value, nulls, 5)
    /\ ret.res[5].val = value[5]

\* C8: nocache_index_getattr takes the slow walk when an attribute before
\* the requested one is null, and its test for nulls before the requested
\* attribute lets it off the slow walk when none is.
IndexSlowIffNullBefore ==
    ret.op = "index_decode" =>
        \A i \in NonNull(nulls) :
            /\ NullBefore(nulls, i) => ret.res[i].slow
            /\ ~NullBefore(nulls, i) => ~ret.nulltest[i]

\* C9: every cached offset the slow walk of either accessor stores is the
\* start of its attribute, the running offset rounded up to the
\* attribute's alignment.
SlowWalkStoresStart ==
    (ret.op \in {"nocachegetattr", "nocache_index_getattr"} /\ ret.res.slow) =>
        \A w \in ret.res.writes :
            /\ w[2] = AttAlign(desc[w[1] + 1], w[2])
            /\ w[2] = LayoutStart(desc, w[1] + 1)

\* C10: each populated cached offset of the row descriptor is the start of
\* its attribute in the layout of all attributes before it, which are all
\* of fixed length and have populated offsets themselves; every offset a
\* call stores is that start, the one already there if there was one.
HeapCacheInvariant ==
    /\ attcacheoff[1] \in {Unset, 0}
    /\ \A j \in 2..Len(desc) :
         attcacheoff[j] > 0 =>
            /\ \A k \in 1..(j - 1) : desc[k].attlen # -1
            /\ attcacheoff[j] = LayoutStart(desc, j)
            /\ \A k \in 2..(j - 1) : attcacheoff[k] > 0
    /\ ret.op = "nocachegetattr" =>
         \A w \in ret.res.writes :
            /\ w[2] = LayoutStart(desc, w[1] + 1)
            /\ ret.before[w[1] + 1] \in {Unset, w[2]}

\* A call that stored offsets anew, one of them over an offset already
\* there, and left the offsets of two attributes behind the first
\* populated.
HeapCacheInvariantWitness ==
    /\ ret.op = "nocachegetattr"
    /\ \E w \in ret.res.writes : ret.before[w[1] + 1] = w[2]
    /\ \E w \in ret.res.writes : ret.before[w[1] + 1] = Unset
    /\ Cardinality({j \in 1..Len(desc) : attcacheoff[j] > 0}) >= 2

\* Bit i (0-based) of the bitmap bytes b, least significant bit of byte
\* i div 8 first.
BitmapBit(b, i) == BitAnd(b[(i \div 8) + 1], Pow2(i % 8)) # 0

\* C11: given a bitmap, DataFill writes ceil(natts/8) bytes whose bit i is
\* 1 exactly when attribute i is not null, the unused bits being 0; a
\* tuple without nulls has no bitmap; heap_attisnull returns 1 exactly for
\* the attributes with nulls[] 'n', also when there is no bitmap to read.
NullBitmapConvention ==
    /\ ret.op = "heap_formtuple" =>
         IF HasNull(nulls)
         THEN /\ Len(ret.bits) = (Len(desc) + 7) \div 8
              /\ htup.t_bits = ret.bits
              /\ \A i \in 0..(8 * Len(ret.bits) - 1) :
                    BitmapBit(ret.bits, i) <=> (i < Len(desc) /\ nulls[i + 1] = " ")
         ELSE /\ ret.bits = << >>
              /\ htup.t_bits = << >>
    /\ ret.op = "heap_decode" =>
         \A i \in 1..Len(desc) : ret.isnull[i] = (IF nulls[i] = "n" THEN 1 ELSE 0)

\* A tuple of more than 8 attributes read back, with a null attribute in
\* each bitmap byte and non-null ones next to them.
NullBitmapConventionWitness ==
    /\ ret.op = "heap_decode"
    /\ Len(desc) > 8
    /\ Len(htup.t_bits) = 2
    /\ nulls[2] = "n" /\ nulls[3] = " " /\ nulls[9] = "n" /\ nulls[8] = " "
    /\ ret.isnull[2] = 1 /\ ret.isnull[3] = 0 /\ ret.isnull[9] = 1
    /\ htup.t_bits[2] = IF Len(desc) = 9 THEN 0 ELSE (IF nulls[10] = " " THEN 2 ELSE 0)

\* Some attribute is null.
AnyNull == \E i \in 1..Len(desc) : nulls[i] = "n"

\* Some non-null attribute is variable-length.
AnyVarlena == \E i \in 1..Len(desc) : desc[i].attlen = -1 /\ nulls[i] = " "

\* C12: in a tuple built by heap_formtuple or index_formtuple the has-null
\* flag is set, and a bitmap present, exactly when an attribute is null,
\* and the has-variable-length flag is set exactly when a non-null
\* attribute is variable-length.
WholeTupleFlags ==
    /\ (ret.op = "heap_formtuple" /\ ~htup.err) =>
          /\ (BitAnd(htup.t_infomask, HEAP_HASNULL) # 0) <=> AnyNull
          /\ (htup.t_bits # << >>) <=> AnyNull
          /\ (BitAnd(htup.t_infomask, HEAP_HASVARLENA) # 0) <=> AnyVarlena
    /\ (ret.op = "index_formtuple" /\ ~itup.err) =>
          /\ (BitAnd(itup.t_info, INDEX_NULL_MASK) # 0) <=> AnyNull
          /\ (itup.bits # << >>) <=> AnyNull
          /\ (BitAnd(itup.t_info, INDEX_VAR_MASK) # 0) <=> AnyVarlena

\* An index tuple whose variable-length attributes are all null, flagged
\* has-null and all-fixed.
WholeTupleFlagsWitness ==
    /\ ret.op = "index_formtuple"
    /\ ~itup.err
    /\ \E i \in 1..Len(desc) : desc[i].attlen = -1
    /\ \E i \in 1..Len(desc) : desc[i].attlen # -1 /\ nulls[i] = " "
    /\ \A i \in 1..Len(desc) : desc[i].attlen = -1 => nulls[i] = "n"
    /\ IndexTupleAllFixed(itup)
    /\ ~IndexTupleNoNulls(itup)

\* The boundary of a declared alignment class.
Boundary(a) ==
    CASE a.attalign = "c" -> 1
      [] a.attalign = "s" -> 2
      [] a.attalign = "i" -> 4
      [] a.attalign = "d" -> 8

RECURSIVE DeclaredEnd(_, _, _, _)
\* The end of the data of attributes 1..i when every non-null attribute
\* starts at the end of the data before it rounded up to the boundary of
\* its declared alignment class.
DeclaredEnd(d, v, n, i) ==
    IF i = 0 THEN 0
    ELSE IF n[i] = "n" THEN DeclaredEnd(d, v, n, i - 1)
    ELSE AlignTo(DeclaredEnd(d, v, n, i - 1), Boundary(d[i])) + DatumLen(d[i], v[i])

DeclaredStart(d, v, n, i) == AlignTo(DeclaredEnd(d, v, n, i - 1), Boundary(d[i]))

\* The bytes of the datum of attribute i.
DatumBytes(a, v, i) ==
    IF a.attbyval /\ a.attlen # -1 THEN [k \in 1..a.attlen |-> Mark(i, k)] ELSE v

\* Every non-null attribute's bytes are in data at the start its declared
\* alignment class gives.
DeclaredLayout(data) ==
    \A i \in NonNull(nulls) :
        BytesAt(data, DeclaredStart(desc, value, nulls, i), DatumLen(desc[i], value[i]))
            = DatumBytes(desc[i], value[i], i)

\* C13: in a tuple built by heap_formtuple or index_formtuple each
\* non-null attribute starts at the end of the data before it rounded up
\* to the boundary of its declared alignment class, whatever its length
\* class.
AlignmentAsDeclared ==
    /\ (ret.op = "heap_formtuple" /\ ~htup.err) => DeclaredLayout(htup.data)
    /\ (ret.op = "index_formtuple" /\ ~itup.err) => DeclaredLayout(itup.data)

\* A step in which an accessor was called.
AccessorStep ==
    /\ ret' # ret
    /\ ret'.op \in {"nocachegetattr", "nocache_index_getattr"}

\* A step in which a tuple was built.
BuilderStep ==
    /\ ret' # ret
    /\ ret'.op \in {"heap_formtuple", "index_formtuple"}

TupleCopy ==
    /\ (ret.op = "heap_copytuple" /\ ret.tuple # NULL) =>
          /\ ~ret.res.err /\ ~ret.res.wild
          /\ Len(ret.res.newTuple) = htup.t_len
          /\ ret.res.newTuple = ret.tuple
          /\ HeapDecodeAll(HeapTupleAt(ret.res.newTuple), desc) = HeapDecodeAll(htup, desc)
          /\ \A i \in 1..Len(desc) :
                LET got == HeapDecodeAll(HeapTupleAt(ret.res.newTuple), desc)[i]
                IN /\ got.isnull <=> (nulls[i] = "n")
                   /\ ~got.isnull => got.res.val = value[i]
          /\ htup = heap_formtuple(desc, value, nulls)
    /\ (ret.op = "heap_copytuple" /\ ret.tuple = NULL) => ret.res.newTuple = NULL
    /\ ret.op = "CopyIndexTuple" =>
          LET size == BitAnd(itup.t_info, 8191)
          IN /\ ret.res.palloc <=> (ret.before = NULL)
             /\ ~ret.res.overflow /\ ~ret.res.wild
             /\ Len(ret.source) = size
             /\ SubSeq(ret.res.target, 1, size) = ret.source
             /\ Len(ret.res.target) = IF ret.before = NULL THEN size ELSE Len(ret.before)
             /\ \A k \in (size + 1)..Len(ret.res.target) : ret.res.target[k] = ret.before[k]
             /\ \A i \in NonNull(nulls) :
                   ~nocache_index_getattr(itup, i, desc, NoCache(desc)).wild =>
                      nocache_index_getattr(IndexTupleAt(ret.res.target), i, desc,
                                            NoCache(desc))
                        = nocache_index_getattr(itup, i, desc, NoCache(desc))
             /\ itup = index_formtuple(desc, value, nulls)

\* A copy of a row tuple with a bitmap and a variable-length attribute
\* after a null one.
TupleCopyWitness ==
    /\ ret.op = "heap_copytuple"
    /\ ret.tuple # NULL
    /\ Len(ret.res.newTuple) > SizeofHeapTupleHeader + 8
    /\ \E i, j \in 1..Len(desc) :
         i < j /\ nulls[i] = "n" /\ nulls[j] = " " /\ desc[j].attlen = -1

\* The selector array holds only ' ' and 'r'.
Selecting(repl) == \A i \in 1..Len(repl) : repl[i] \in {" ", "r"}

\* C16: for a selector array over ' ' and 'r', heap_modifytuple returns a
\* tuple in which every attribute with selector 'r' reads as the
\* replacement value and null flag and every attribute with selector ' '
\* as the original's; the original tuple is as it was.
RebuildWithReplacements ==
    (ret.op = "heap_modifytuple" /\ Selecting(ret.repl)) =>
        /\ ~ret.res.err /\ ~ret.res.wild
        /\ LET got == HeapDecodeAll(ret.res.newTuple, desc)
           IN \A i \in 1..Len(desc) :
                IF ret.repl[i] = "r"
                THEN /\ got[i].isnull <=> (ret.replNull[i] = "n")
                     /\ ~got[i].isnull =>
                          /\ ~got[i].res.err /\ ~got[i].res.wild
                          /\ got[i].res.val = ret.replValue[i]
                ELSE /\ got[i].isnull <=> (nulls[i] = "n")
                     /\ ~got[i].isnull =>
                          /\ ~got[i].res.err /\ ~got[i].res.wild
                          /\ got[i].res.val = value[i]
        /\ ret.tuple = [heap_formtuple(desc, value, nulls) EXCEPT !.stamp = Stamp]

\* A rebuilt tuple in which a null attribute was replaced by a
\* variable-length value and the attribute after it was kept.
RebuildWithReplacementsWitness ==
    /\ ret.op = "heap_modifytuple"
    /\ ~ret.res.err
    /\ \E i, k \in 1..Len(desc) :
         /\ i < k
         /\ ret.repl[i] = "r" /\ nulls[i] = "n" /\ ret.replNull[i] = " "
         /\ desc[i].attlen = -1
         /\ ret.repl[k] = " " /\ nulls[k] = " "
         /\ HeapDecodeAll(ret.res.newTuple, desc)[k].res.off > 0

\* C17: heap_modifytuple raises an error, returning no tuple, whenever
\* some selector entry is neither ' ' nor 'r', wherever it is and whatever
\* the other entries are.
BadSelectorRaises ==
    (ret.op = "heap_modifytuple" /\ ~Selecting(ret.repl)) =>
        /\ ret.res.err
        /\ "newTuple" \notin DOMAIN ret.res

\* An error raised for a selector array whose last entry alone is neither
\* ' ' nor 'r', after the attribute before it was read.
BadSelectorRaisesWitness ==
    /\ ret.op = "heap_modifytuple"
    /\ ret.res.err
    /\ Len(desc) >= 2
    /\ ret.repl[Len(desc)] = "x"
    /\ ret.repl[Len(desc) - 1] = " "
    /\ nulls[Len(desc) - 1] = " "

\* C18: the tuple heap_modifytuple returns has the original's object id,
\* command ids, transaction ids and self-locator, and the t_len, t_hoff,
\* t_natts and t_infomask (all 16 bits) that heap_formtuple computed for
\* the merged values.
HeaderCarried ==
    (ret.op = "heap_modifytuple" /\ ~ret.res.err) =>
        /\ ret.res.newTuple.stamp = ret.tuple.stamp
        /\ ret.res.newTuple.t_len = ret.res.formed.t_len
        /\ ret.res.newTuple.t_hoff = ret.res.formed.t_hoff
        /\ ret.res.newTuple.t_natts = ret.res.formed.t_natts
        /\ ret.res.newTuple.t_infomask = ret.res.formed.t_infomask

\* HeaderCarried with t_infomask compared in its low 8 bits only.
HeaderCarriedLowByte ==
    (ret.op = "heap_modifytuple" /\ ~ret.res.err) =>
        /\ ret.res.newTuple.stamp = ret.tuple.stamp
        /\ ret.res.newTuple.t_len = ret.res.formed.t_len
        /\ ret.res.newTuple.t_hoff = ret.res.formed.t_hoff
        /\ ret.res.newTuple.t_natts = ret.res.formed.t_natts
        /\ ret.res.newTuple.t_infomask = ret.res.formed.t_infomask % 256
        /\ BitAnd(ret.res.formed.t_infomask, HEAP_XMAX_INVALID) # 0
        /\ BitAnd(ret.res.newTuple.t_infomask, HEAP_XMAX_INVALID) = 0

\* C19: heap_formtuple raises an error, with no buffer allocated, whenever
\* the descriptor has more than MaxHeapAttributeNumber attributes, and
\* index_formtuple whenever it has more than MaxIndexAttributeNumber;
\* a descriptor of exactly the maximum is accepted.
AttributeCeilings ==
    /\ ret.op = "heap_formtuple" =>
          /\ Len(desc) > MaxHeapAttributeNumber => (htup.err /\ ~htup.palloc)
          /\ Len(desc) = MaxHeapAttributeNumber =>
                (~htup.err /\ htup.t_natts = MaxHeapAttributeNumber)
    /\ ret.op = "index_formtuple" =>
          /\ Len(desc) > MaxIndexAttributeNumber => (itup.err /\ ~itup.palloc)
          /\ Len(desc) = MaxIndexAttributeNumber => ~itup.err

\* A row tuple of exactly MaxHeapAttributeNumber attributes, one of them
\* null, was built.
AttributeCeilingsWitness ==
    /\ ret.op = "heap_formtuple"
    /\ Len(desc) = MaxHeapAttributeNumber
    /\ HasNull(nulls)
    /\ ~htup.err
    /\ Len(htup.t_bits) = BITMAPLEN(MaxHeapAttributeNumber)

\* The size index_formtuple asks palloc for.
TotalSize ==
    DOUBLEALIGN(IndexInfoFindDataOffset(IF HasNull(nulls) THEN INDEX_NULL_MASK ELSE 0)
                + ComputeDataSize(desc, value, nulls))

\* C20: index_formtuple returns a tuple only if its total size fits the
\* 13-bit size field of t_info and raises an error for every larger size;
\* in a returned tuple the low 13 bits of t_info are the allocated size,
\* bit 0x8000 says that an attribute is null and bit 0x4000 that a
\* non-null attribute is variable-length.
IndexSizeField ==
    ret.op = "index_formtuple" =>
        /\ TotalSize >= SizeFieldRange => itup.err
        /\ ~itup.err =>
              /\ TotalSize < SizeFieldRange
              /\ BitAnd(itup.t_info, SizeFieldRange - 1)
                   = IndexInfoFindDataOffset(itup.t_info) + Len(itup.data)
              /\ BitAnd(itup.t_info, SizeFieldRange - 1) = TotalSize
              /\ (BitAnd(itup.t_info, INDEX_NULL_MASK) # 0) <=> AnyNull
              /\ (BitAnd(itup.t_info, INDEX_VAR_MASK) # 0) <=> AnyVarlena

\* A declared length none of the routines has a case for: not -1, 1, 2, 4
\* and not greater than 4.
InvalidLen(l) == l \notin {-1, 1, 2, 4} /\ ~(l > 4)

\* The non-null attributes among the first k whose declared length is in
\* the set ls.
WithLen(k, ls) == {i \in 1..k : nulls[i] = " " /\ desc[i].attlen \in ls}

\* The accessor call in ret went through one of its walks: it did not
\* return from a cached offset or from the first-attribute shortcut.
Walked == ret.res.slow \/ ret.res.writes # {}

\* The routines raise an error for every length in ls met on a non-null
\* attribute, and for nothing else.
RejectsLengths(ls) ==
    /\ ret.op = "ComputeDataSize" =>
          /\ (ret.size = SizeError) = (WithLen(Len(desc), ls) # {})
          /\ (ret.fill = "raised") = (WithLen(Len(desc), ls) # {})
    /\ (ret.op \in {"nocachegetattr", "nocache_index_getattr"} /\ Walked) =>
          (ret.res.err = (WithLen(ret.attnum, ls) # {}))

\* C21: ComputeDataSize, DataFill and the walks of both accessors raise an
\* error, and produce no size, tuple or value, for every non-null
\* attribute whose declared length is 0, 3 or negative and not -1, and
\* they all reject the same lengths.
InvalidLengthRejected == RejectsLengths({l \in LenClasses : InvalidLen(l)})

\* C22: heap_attisnull raises an error for attribute number 0 and for
\* every negative number that is not a system attribute, whether or not
\* the tuple contains nulls; it returns 1 for every number greater than
\* t_natts and 0 for the six system attributes.
AttIsNullByNumber ==
    ret.op = "heap_attisnull" =>
        /\ (ret.attnum <= 0 /\ ret.attnum \notin SystemAttributeNumbers)
              => ret.res = Elog
        /\ ret.attnum > htup.t_natts => ret.res = 1
        /\ ret.attnum \in SystemAttributeNumbers => ret.res = 0

\* AttIsNullByNumber for the tuples that contain nulls.
AttIsNullByNumberWithNulls ==
    ret.op = "heap_attisnull" => (HeapTupleNoNulls(htup) \/ AttIsNullByNumber)

\* The header field a system attribute stands for.
SystemField(attnum) ==
    CASE attnum = ObjectIdAttributeNumber -> htup.stamp.t_oid
      [] attnum = MinTransactionIdAttributeNumber -> htup.stamp.t_xmin
      [] attnum = MaxTransactionIdAttributeNumber -> htup.stamp.t_xmax
      [] attnum = MinCommandIdAttributeNumber -> htup.stamp.t_cmin
      [] attnum = MaxCommandIdAttributeNumber -> htup.stamp.t_cmax

\* C23: heap_getsysattr, heap_sysattrlen and heap_sysattrbyval accept the
\* same six attribute numbers and raise an error for every other one; the
\* self-locator is the only one reported as by-reference and the only one
\* returned as a pointer into the tuple header, the other five are
\* returned as the value of their header field.
SystemAttributes ==
    ret.op = "heap_getsysattr" =>
        LET system == ret.attnum \in SystemAttributeNumbers
            self == ret.attnum = SelfItemPointerAttributeNumber
        IN /\ Cardinality(SystemAttributeNumbers) = 6
           /\ (ret.len = Elog) = ~system
           /\ ret.byval.err = ~system
           /\ ret.res.err = ~system
           /\ system =>
                 /\ ret.byval.byval = ~self
                 /\ ret.res.pointer = self
                 /\ self => /\ ret.res.datum >= 0
                            /\ ret.res.datum + ret.len <= SizeofHeapTupleHeader
                            /\ ret.res.datum = HeapTupleData.t_ctid
                 /\ ~self => ret.res.datum = SystemField(ret.attnum)

\* The maximum command id was asked for on a stamped tuple that contains
\* nulls, and returned as the value of its header field.
SystemAttributesWitness ==
    /\ ret.op = "heap_getsysattr"
    /\ ret.attnum = MaxCommandIdAttributeNumber
    /\ ret.res = ValueOf(Stamp.t_cmax)
    /\ ~HeapTupleNoNulls(htup)

\* The value caller p's call returns when no other call runs.
Alone(p) ==
    nocachegetattr(ret.proc[p].tup, ret.proc[p].attnum + 1, desc, NoCache(desc)).val

\* C24: when two nocachegetattr calls on one descriptor interleave between
\* their reads and writes of cached offsets, each returns the value it
\* returns alone, every cached offset written is the one a sequential run
\* writes, and no call reads a descriptor entry at an index >= natts.
RacingAccessors ==
    ret.op = "race" =>
        /\ \A p \in Callers :
             /\ ret.proc[p].pc = "done" => ret.proc[p].val = Alone(p)
             /\ ~ret.proc[p].oob
        /\ \A j \in 1..Len(desc) :
             attcacheoff[j] # Unset => attcacheoff[j] = LayoutStart(desc, j)

\* RacingAccessors without the reads behind the descriptor.
RacingValues ==
    ret.op = "race" =>
        /\ \A p \in Callers :
             ret.proc[p].pc = "done" => ret.proc[p].val = Alone(p)
        /\ \A j \in 1..Len(desc) :
             attcacheoff[j] # Unset => attcacheoff[j] = LayoutStart(desc, j)

\* The accessor call in ret of routine op ran the scan
\* `while (att[j]->attcacheoff > 0) j++': it took the path that stores
\* att[0]->attcacheoff and did not walk.
Scanned(op) == ret.op = op /\ ~ret.res.slow /\ ret.res.writes # {}

\* The scan of the call in ret ended at the requested attribute or before
\* it and read no entry behind the descriptor.
ScanEndsAtAttribute ==
    /\ ~ret.res.oob
    /\ ScanCached([ret.before EXCEPT ![1] = 0], 1) <= ret.attnum - 1

\* C25: in sequential use, for every attribute number 1..natts passed to
\* nocachegetattr or nocache_index_getattr and every reachable state of
\* the cached offsets, the scan over cached attributes ends at an index
\* not greater than the requested attribute's and reads no descriptor
\* entry at an index >= natts.
ScanInBounds ==
    (Scanned("nocachegetattr") \/ Scanned("nocache_index_getattr"))
        => ScanEndsAtAttribute

\* ScanInBounds for nocachegetattr alone.
HeapScanInBounds == Scanned("nocachegetattr") => ScanEndsAtAttribute

\* C26: the has-null scan of heap_formtuple, ComputeDataSize and DataFill
\* classify every nulls[i] byte the same way: for any content of nulls[],
\* also bytes other than ' ' and 'n' that heap_modifytuple passes through
\* from replNull, DataFill writes exactly the bytes ComputeDataSize
\* counted and stays inside the allocated tuple.
ConsistentNulls ==
    /\ (ret.op = "heap_formtuple" /\ ~htup.err) =>
          /\ ret.filled = ret.size
          /\ ~htup.overflow
    /\ (ret.op = "heap_modifytuple" /\ ~ret.res.err) =>
          /\ ~ret.res.newTuple.overflow
          /\ Len(ret.res.newTuple.data) = ret.res.newTuple.t_len - ret.res.newTuple.t_hoff

\* ConsistentNulls for the arrays that hold ' ' and 'n' only.
ConsistentKnownNulls ==
    \/ ret.op = "heap_formtuple" /\ \E i \in 1..Len(nulls) : nulls[i] = "x"
    \/ ret.op = "heap_modifytuple"
         /\ \E i \in 1..Len(desc) : ret.repl[i] = "r" /\ ret.replNull[i] = "x"
    \/ ConsistentNulls

\* C27: in the new protocol CopyGetData(buf, n) either stores exactly the
\* next n bytes of the concatenated CopyData payloads into buf, also when
\* they span two or more messages, or sets fe_eof because CopyDone
\* arrived; it never returns with fewer than n bytes while fe_eof is false.
NewFeDelivery ==
    (ret.op = "CopyGetData" /\ ~ret.err /\ ~ret.before.fe_eof) =>
        \/ fe_eof
        \/ /\ Len(ret.databuf) = ret.datasize
           /\ ret.databuf = SubSeq(Undelivered(ret.before), 1, ret.datasize)

\* NewFeDelivery for the calls whose bytes lie in one message.
NewFeDeliveryWithinMessage ==
    (ret.op = "CopyGetData" /\ ~ret.err /\ ~ret.before.fe_eof) =>
        \/ fe_eof
        \/ ret.databuf = SubSeq(Undelivered(ret.before), 1, Len(ret.databuf))
           /\ \/ Len(ret.databuf) = ret.datasize
              \/ copy_msgbuf.cursor = Len(copy_msgbuf.data)


\* The bytes the last call of CopyReadAttribute has taken from the input.
Consumed ==
    LET u == Unread(ret.before)
    IN SubSeq(u, 1, Len(u) - Len(Unread(World)))

RECURSIVE BackslashRun(_, _)
\* The number of backslashes in a row that end at position i of s.
BackslashRun(s, i) ==
    IF i = 0 THEN 0
    ELSE IF s[i] # CharBackslash THEN 0
    ELSE 1 + BackslashRun(s, i - 1)

\* The byte at position i of s, bytes read from the start of an attribute,
\* is escaped: an odd number of backslashes stands before it.
Escaped(s, i) == BackslashRun(s, i - 1) % 2 = 1

\* The line terminator of each kind.
Terminator(e) ==
    CASE e = "EOL_NL" -> <<CharNL>>
      [] e = "EOL_CR" -> <<CharCR>>
      [] e = "EOL_CRNL" -> <<CharCR, CharNL>>
      [] OTHER -> << >>

\* The byte at position i of s is a carriage return or newline that is
\* not part of the terminator of kind e.
Mismatch(s, i, e) ==
    CASE e = "EOL_NL" -> s[i] = CharCR
      [] e = "EOL_CR" -> s[i] = CharNL
      [] e = "EOL_CRNL" ->
           \/ s[i] = CharCR /\ (i = Len(s) \/ s[i + 1] # CharNL)
           \/ s[i] = CharNL /\ (i = 1 \/ s[i - 1] # CharCR \/ Escaped(s, i - 1))
      [] OTHER -> FALSE

\* Position i of s lies behind an end-of-copy marker (backslash, dot) and
\* the terminator of kind e that follows it.
BehindEndOfCopy(s, i, e) ==
    \E k \in 1..Len(s) :
        /\ s[k] = CharDot
        /\ Escaped(s, k)
        /\ k + Len(Terminator(e)) < i

KnownEol == {"EOL_NL", "EOL_CR", "EOL_CRNL"}

\* eol_type changes only from EOL_UNKNOWN to a known kind.
EolStep ==
    eol_type' # eol_type => (eol_type = "EOL_UNKNOWN" /\ eol_type' \in KnownEol)

\* Once eol_type is known, every unescaped carriage return or newline
\* read that does not match it raises an error.
EolMismatchRaisesAlways ==
    (/\ ret.op = "CopyFrom"
     /\ ret.called
     /\ ret.before.eol_type \in KnownEol
     /\ \E i \in 1..Len(Consumed) :
          /\ ~Escaped(Consumed, i)
          /\ Mismatch(Consumed, i, ret.before.eol_type)) => ret.err

\* The same for what is read up to the end-of-copy marker and its
\* terminator.
EolMismatchRaises ==
    (/\ ret.op = "CopyFrom"
     /\ ret.called
     /\ ret.before.eol_type \in KnownEol
     /\ \E i \in 1..Len(Consumed) :
          /\ ~Escaped(Consumed, i)
          /\ Mismatch(Consumed, i, ret.before.eol_type)
          /\ ~BehindEndOfCopy(Consumed, i, ret.before.eol_type)) => ret.err

\* A call that reports the end of a line has read one terminator of the
\* kind eol_type, after bytes without an unescaped carriage return or
\* newline, and the lines counted are the terminators accepted.
EolEndsOneLine ==
    ret.op = "CopyFrom" =>
        /\ copy_lineno = ret.ends
              + (IF ret.result = "END_OF_LINE" \/ copy_lineno = 0 THEN 0 ELSE 1)
        /\ (ret.called /\ ret.result = "END_OF_LINE" /\ ~ret.err) =>
              /\ eol_type \in KnownEol
              /\ LET n == Len(Consumed) - Len(Terminator(eol_type))
                 IN /\ n >= 0
                    /\ SubSeq(Consumed, n + 1, Len(Consumed)) = Terminator(eol_type)
                    /\ ~Escaped(Consumed, n + 1)
                    /\ \A i \in 1..n :
                         Consumed[i] \in {CharCR, CharNL} => Escaped(Consumed, i)

\* C28, as stated: during one CopyFrom run eol_type changes only from
\* EOL_UNKNOWN to one of EOL_NL, EOL_CR, EOL_CRNL; once it is known, every
\* unescaped carriage return or newline that does not match the
\* established terminator raises an error; every line terminator that is
\* accepted ends exactly one line.
EolStateMachineAlways ==
    [][EolStep]_vars /\ []EolMismatchRaisesAlways /\ []EolEndsOneLine

\* C28: during one CopyFrom run eol_type changes only from EOL_UNKNOWN to
\* one of EOL_NL, EOL_CR, EOL_CRNL; once it is known, every unescaped
\* carriage return or newline that does not match the established
\* terminator and is read up to the end-of-copy marker and its terminator
\* raises an error (what the new protocol sends after them is read and
\* thrown away unexamined); every line terminator that is accepted ends
\* exactly one line.
EolStateMachine ==
    [][EolStep]_vars /\ []EolMismatchRaises /\ []EolEndsOneLine

\* A carriage return without a newline was read on a later line of an
\* input whose lines end with carriage return and newline, and the error
\* was raised.
EolStateMachineWitness ==
    /\ ret.op = "CopyFrom"
    /\ ret.called
    /\ ret.err
    /\ ret.before.eol_type = "EOL_CRNL"
    /\ ret.before.copy_lineno = 2
    /\ \E i \in 1..Len(Consumed) :
         /\ Consumed[i] = CharCR
         /\ ~Escaped(Consumed, i)
         /\ Mismatch(Consumed, i, "EOL_CRNL")


\* The attribute read back is the string written, and the reader stopped
\* at the byte that followed it.
ReadBack ==
    /\ ~ret.err
    /\ attribute_buf = ret.string
    /\ ret.result = (IF ret.follow = CharNL THEN "END_OF_LINE" ELSE "NORMAL_ATTR")
    /\ Unread(World) = << >>

\* C29: for every single-character delimiter accepted by DoCopy and every
\* attribute string, the characters CopyAttributeOut emits for the string,
\* followed by the delimiter or a newline, are read back by
\* CopyReadAttribute with the same delimiter as exactly the original
\* string, ending at that delimiter or newline.
TextRoundTrip == ret.op = "CopyReadAttribute" => ReadBack

\* TextRoundTrip for the delimiters tab and comma.
TextRoundTripOrdinary ==
    (ret.op = "CopyReadAttribute" /\ ret.delimc \in {CharTab, CharComma}) => ReadBack


\* The byte that follows c in the numbered input, EOF after the last.
Following(c) == IF c < Len(ret.input) THEN ret.input[c + 1] ELSE EOF

\* After CopyDonePeek(c, false) the next CopyGetChar returns c.
PeekPutBack ==
    (ret.op = "CopyGetChar" /\ ret.prev.op = "CopyDonePeek" /\ ~ret.prev.pickup) =>
        ret.c = ret.prev.c

\* After CopyDonePeek(c, true) the next read that returns (it raises an
\* error when the old protocol's stream ends before the bytes asked for)
\* returns the byte after c.
PeekPickUp ==
    (/\ ret.op \in {"CopyGetChar", "CopyPeekChar", "CopyGetBytes"}
     /\ ret.prev.op = "CopyDonePeek"
     /\ ret.prev.pickup
     /\ ~ret.err) => ret.c = Following(ret.prev.c)

\* Whenever no peeked byte waits for its CopyDonePeek, the bytes delivered
\* and the bytes not read yet are the input.
PeekNothingLost ==
    (ret.op \in {"CopyGetChar", "CopyDonePeek", "CopyGetBytes"} /\ ~ret.err) =>
        ret.delivered \o Unread(World) = ret.input

\* C30: for each of the three sources, after CopyPeekChar returns a
\* non-EOF byte c, CopyDonePeek(c, false) leaves the input so that the next
\* CopyGetChar returns the same c, and CopyDonePeek(c, true) leaves it so
\* that the next read returns the byte following c; no byte of the input
\* is lost or delivered twice by a peek/done-peek pair.
PeekProtocol ==
    ret.op \in {"CopyGetChar", "CopyPeekChar", "CopyDonePeek", "CopyGetBytes"} =>
        (PeekPutBack /\ PeekPickUp /\ PeekNothingLost)

\* In the new protocol the last byte of a CopyData message was peeked at
\* and put back, and the CopyGetChar that followed returned it.
PeekProtocolWitness ==
    /\ ret.op = "CopyGetChar"
    /\ ret.prev.op = "CopyDonePeek"
    /\ ~ret.prev.pickup
    /\ copy_dest = "COPY_NEW_FE"
    /\ copy_msgbuf.cursor = Len(copy_msgbuf.data)
    /\ frontend.msgs # << >>
    /\ ret.c = ret.prev.c
    /\ Len(ret.delivered) = 2

\* C31: in a read-only transaction DoCopy refuses exactly the direction that
\* writes: COPY FROM into a relation outside the temporary namespace raises
\* "transaction is read-only" and inserts no row, and COPY TO is never
\* refused for being in a read-only transaction.
ReadOnlyRefusesWrites ==
    (ret.op = "DoCopy" /\ ret.XactReadOnly) =>
        /\ (ret.is_from /\ ~ret.isTempNamespace) =>
              (ret.err = "transaction is read-only" /\ ret.inserted = 0)
        /\ ~ret.is_from => ret.err # "transaction is read-only"

\* C32 as stated: after gistrestrpos the scan's current item pointer, its
\* GS_CURBEFORE flag and its parent stack, entry by entry from the top, are
\* what they were when gistmarkpos ran last on the scan, whatever the scan
\* did in between, as long as no index update has changed the scan since.
MarkRestoreRoundTripAlways ==
    (/\ ret.op = "gistrestrpos"
     /\ ret.marked # << >>
     /\ ret.marked[1].s = ret.s)
        => Position(scan[ret.s]) = ret.marked[1].position

\* C32, amended: the same when, besides, gistrescan has not run on the scan
\* since gistmarkpos; restore may be repeated and the scan may have moved
\* or ended in between.
MarkRestoreRoundTrip ==
    (/\ ret.op = "gistrestrpos"
     /\ ret.marked # << >>
     /\ ret.marked[1].s = ret.s
     /\ ~ret.rescanned)
        => Position(scan[ret.s]) = ret.marked[1].position

\* A scan that is before its item, two levels below the root, is restored
\* from its mark.
MarkRestoreRoundTripWitness ==
    /\ ret.op = "gistrestrpos"
    /\ ret.marked # << >>
    /\ ~ret.rescanned
    /\ ItemPointerIsValid(ret.marked[1].position.item)
    /\ ret.marked[1].position.curbefore
    /\ Len(ret.marked[1].position.stack) = 2
    /\ ret.marked[1].position.stack[1].offset # ret.marked[1].position.stack[2].offset
    /\ Position(scan[ret.s]) = ret.marked[1].position

\* The deletion at (blkno, offnum) concerns the item pointer.
DeletedAt(iptr, blkno, offnum) ==
    /\ ItemPointerIsValid(iptr)
    /\ iptr.ip_blkid = blkno
    /\ iptr.ip_posid >= offnum

\* The item pointer after the deletion: one offset back, but not below
\* FirstOffsetNumber.
AfterDelete(iptr, blkno, offnum) ==
    IF ~DeletedAt(iptr, blkno, offnum) THEN iptr
    ELSE IF iptr.ip_posid > FirstOffsetNumber
    THEN [iptr EXCEPT !.ip_posid = iptr.ip_posid - 1]
    ELSE [iptr EXCEPT !.ip_posid = FirstOffsetNumber]

\* The flags after the deletion: the flag of an item pointer that stays at
\* FirstOffsetNumber is set.
FlagsAfterDelete(sc, blkno, offnum) ==
    LET cur == IF DeletedAt(sc.currentItemData, blkno, offnum)
                  /\ sc.currentItemData.ip_posid <= FirstOffsetNumber
               THEN BitOr(sc.opaque[1].flags, GS_CURBEFORE)
               ELSE sc.opaque[1].flags
    IN IF DeletedAt(sc.currentMarkData, blkno, offnum)
          /\ sc.currentMarkData.ip_posid <= FirstOffsetNumber
       THEN BitOr(cur, GS_MRKBEFORE) ELSE cur

\* The descriptor of a scan of the index after the deletion.
ScanAfterDelete(sc, blkno, offnum) ==
    [sc EXCEPT !.currentItemData = AfterDelete(@, blkno, offnum),
               !.currentMarkData = AfterDelete(@, blkno, offnum),
               !.opaque = IF sc.opaque = NULL THEN NULL
                          ELSE <<[sc.opaque[1] EXCEPT
                                    !.flags = FlagsAfterDelete(sc, blkno, offnum)]>>]

\* C33: gistadjscans with GISTOP_DEL at (blkno, offnum) raises no error and
\* moves, in every registered scan of the index, a valid current or marked
\* position on blkno at offnum or above back one offset, or keeps it at
\* FirstOffsetNumber and sets GS_CURBEFORE or GS_MRKBEFORE; every other
\* position, the other flag, the stacks, the buffers and the scans of other
\* indexes stay as they were; no valid position is below FirstOffsetNumber.
DeleteAdjustment ==
    /\ (ret.op = "gistadjscans" /\ ret.gop = GISTOP_DEL) =>
          /\ ~ret.err
          /\ \A s \in 1..Len(scan) :
                scan[s] =
                   IF ret.scans[s].indexRelation = ret.relid
                      /\ \E l \in 1..Len(GISTScans) : GISTScans[l].gsl_scan = s
                   THEN ScanAfterDelete(ret.scans[s], ret.blkno, ret.offnum)
                   ELSE ret.scans[s]
    /\ \A s \in 1..Len(scan) :
          /\ ItemPointerIsValid(scan[s].currentItemData)
                => scan[s].currentItemData.ip_posid >= FirstOffsetNumber
          /\ ItemPointerIsValid(scan[s].currentMarkData)
                => scan[s].currentMarkData.ip_posid >= FirstOffsetNumber

\* A deletion moves the current position of a scan back and leaves its
\* marked position at FirstOffsetNumber with GS_MRKBEFORE newly set, while
\* a scan of another index at the deleted item stays where it is.
DeleteAdjustmentWitness ==
    /\ ret.op = "gistadjscans"
    /\ ret.gop = GISTOP_DEL
    /\ \E s \in 1..Len(scan) :
          /\ ret.scans[s].indexRelation = ret.relid
          /\ DeletedAt(ret.scans[s].currentItemData, ret.blkno, ret.offnum)
          /\ scan[s].currentItemData.ip_posid
                = ret.scans[s].currentItemData.ip_posid - 1
          /\ DeletedAt(ret.scans[s].currentMarkData, ret.blkno, ret.offnum)
          /\ scan[s].currentMarkData.ip_posid = FirstOffsetNumber
          /\ BitAnd(ret.scans[s].opaque[1].flags, GS_MRKBEFORE) = 0
          /\ BitAnd(scan[s].opaque[1].flags, GS_MRKBEFORE) # 0
          /\ BitAnd(scan[s].opaque[1].flags, GS_CURBEFORE) = 0
    /\ \E s \in 1..Len(scan) :
          /\ ret.scans[s].indexRelation # ret.relid
          /\ DeletedAt(ret.scans[s].currentItemData, ret.blkno, ret.offnum)
          /\ scan[s] = ret.scans[s]

\* The entry is not owned by the current resource owner.
OtherOwner(e) == e.gsl_owner # CurrentResourceOwner

\* How often the scan s is in the list.
Entries(list, s) == Cardinality({ l \in 1..Len(list) : list[l].gsl_scan = s })

\* C34: the scan list holds the scans begun and neither ended nor released,
\* each once, and no other; ReleaseResources_gist removes the entries of the
\* current resource owner and keeps the others in order; gistendscan on a
\* scan that is not in the list raises "scan list corrupted" and leaves the
\* list as it is, and on a scan of the list it raises nothing.
ScanRegistry ==
    /\ \A l \in 1..Len(GISTScans) : GISTScans[l].gsl_scan \in 1..Len(scan)
    /\ \A s \in 1..Len(scan) :
          Entries(GISTScans, s) = IF Open(s) THEN 1 ELSE 0
    /\ ret.op = "ReleaseResources_gist"
          => GISTScans = SelectSeq(ret.list, OtherOwner)
    /\ ret.op = "gistendscan"
          => IF Entries(ret.list, ret.s) = 0
             THEN ret.err /\ GISTScans = ret.list
             ELSE ~ret.err

\* gistendscan is called on a scan that is no longer in the list, while
\* the list holds two other scans.
ScanRegistryWitness ==
    /\ ret.op = "gistendscan"
    /\ ret.err
    /\ Len(GISTScans) >= 2
    /\ Len(scan) > Len(GISTScans)

\* C35: the pins held on each buffer are as many as the curbuf and markbuf
\* slots that reference it; a buffer that gistmarkpos or gistrestrpos
\* leaves referenced was pinned all through the call; after gistrescan and
\* after gistendscan no pin is held.
PinBalance ==
    /\ PrivateRefCount = PinsOf(scan)
    /\ ret.op \in {"gistmarkpos", "gistrestrpos"} =>
          \A buffer \in {scan[ret.s].opaque[1].curbuf,
                         scan[ret.s].opaque[1].markbuf} \ {InvalidBuffer} :
             ret.low[buffer] >= 1
    /\ ret.op \in {"gistrescan", "gistendscan"} => PrivateRefCount = NoPins

\* After gistmarkpos on a scan whose mark was on the buffer it is on, both
\* slots reference that buffer and it has two pins.
PinBalanceWitness ==
    /\ ret.op = "gistmarkpos"
    /\ scan[ret.s].opaque[1].curbuf # InvalidBuffer
    /\ scan[ret.s].opaque[1].markbuf = scan[ret.s].opaque[1].curbuf
    /\ PrivateRefCount[scan[ret.s].opaque[1].curbuf] = 2
    /\ ret.low[scan[ret.s].opaque[1].curbuf] = 1

====
